---- MODULE Spec2Model ----
(***************************************************************************)
(* FourMemeAnalyzer._analyze_transfers of src/fourmeme_etherscan.py as a   *)
(* state machine: the ledger replay over the transfer list, the bot        *)
(* filter, the native-flow (BNB) lookups with their two-level cache, the   *)
(* profit sums and the final buyer reports.                                *)
(*                                                                         *)
(* Numbers.  Python computes the amounts in floating point; the model      *)
(* computes them exactly, in fixed point.  A token amount is an integer    *)
(* count of 1/Scale tokens (Scale = 10^(2*MaxDec), so both divisions by    *)
(* 10^decimals the code performs are exact).  A native amount is an        *)
(* integer count of wei (the code divides by 1e18 to obtain BNB).          *)
(*                                                                         *)
(* Input.  The transfer list is revealed one record per replay step.  It   *)
(* is in ascending timestamp order (analyze_token asks for sort=asc), so   *)
(* creation_time = min(timeStamp) is the first record's timestamp.  A      *)
(* token has at least one decimal place.                                   *)
(***************************************************************************)
EXTENDS Integers, Sequences, FiniteSets, TLC

VARIABLES
    pc,              \* position in _analyze_transfers
    nTransfers,      \* number of transfer records replayed so far
    lastTs,          \* timestamp of the last record replayed (ascending input)
    token_info,      \* the token_info argument (a dict): decimals from the start, the
                     \* price and threshold keys drawn when the replay ends, price_usd
                     \* when the reports are built
    start_seconds,   \* argument
    end_seconds,     \* argument
    api_key,         \* argument, drawn when first read (line 654); "" is a missing key
    all_buyers,      \* the ledger: address -> entry
    address_txs,     \* address -> sequence of <<tx_hash, direction, timestamp>>
    early_buyers,    \* the cohort: address -> dict
    early_order,     \* insertion order of early_buyers' keys
    valid_buyers,    \* insertion-ordered keys of valid_buyers (non-bot cohort members)
    tx_cache,        \* address -> (tx_hash -> [bnb_in, bnb_out, net_bnb])
    cursor,          \* stage 2: <<index into valid_buyers, index into that buyer's records>>
    buyers,          \* early_buyers_list: the reports
    stats,           \* the result's stats
    lastTx,          \* history: the record replayed last
    credited,        \* history: address -> sum of the raw values credited to it
    debited,         \* history: address -> sum of the raw values debited from it
    seenTo,          \* history: recipients of replayed transfers with no excluded endpoint
    seenFrom,        \* history: senders of replayed transfers with no excluded endpoint
    lastSent,        \* history: address -> timestamp of the last such transfer it sent,
                     \* 0 if none
    calls,           \* history: the <<address, tx_hash>> pairs looked up, in call order
    lastCall,        \* the lookup made last: observer, responses, result
    transfers,       \* the transfers argument as a list object: raw records
    run,             \* which replay of that list is under way: 1 or 2
    first_result,    \* what the first replay of the list returned
    page,            \* analyze_token: page number of the next tokentx request
    all_transfers,   \* analyze_token: number of records fetched so far
    responses,       \* history: the tokentx responses received, in order
    active_tasks,    \* the module-level list of running session ids
    analysis_queue_data, \* the module-level queue: sequence of session ids
    queue_lock,      \* queue_lock: Free, or the set of the request whose thread holds it
    handler,         \* request -> position of its api_analyze handler thread
    worker,          \* request -> position of its run_analysis job in the executor
    sessions,        \* request -> status of its session file
    payment_tokens,  \* contents of PAYMENT_TOKENS_FILE: token -> its data
    used_tx_hashes,  \* contents of USED_TX_HASHES_FILE: a list of hashes
    verifier,        \* verify_payment request -> position and locals
    payer            \* paid api_analyze request -> position and locals

vars == <<pc, nTransfers, lastTs, token_info, start_seconds, end_seconds, api_key,
          all_buyers, address_txs, early_buyers, early_order, valid_buyers,
          tx_cache, cursor, buyers, stats, lastTx, credited, debited, seenTo,
          seenFrom, lastSent, calls, lastCall, transfers, run, first_result, page,
          all_transfers, responses, active_tasks, analysis_queue_data, queue_lock,
          handler, worker, sessions, payment_tokens, used_tx_hashes, verifier, payer>>

\* the variables of one run of _analyze_transfers
analysisVars == <<pc, nTransfers, lastTs, token_info, start_seconds, end_seconds, api_key,
                  all_buyers, address_txs, early_buyers, early_order, valid_buyers,
                  tx_cache, cursor, buyers, stats, lastTx, credited, debited, seenTo,
                  seenFrom, lastSent, calls, lastCall>>

listVars == <<transfers, run, first_result>>
fetchVars == <<page, all_transfers, responses>>
serverVars == <<active_tasks, analysis_queue_data, queue_lock, handler, worker, sessions>>
paymentVars == <<payment_tokens, used_tx_hashes, verifier, payer>>

\* everything outside one run of _analyze_transfers
extVars == <<listVars, fetchVars, serverVars, paymentVars>>

(***************************************************************************)
(* Bounds of the model.                                                    *)
(***************************************************************************)
MaxLen == 2          \* transfer records in the list
T0 == 9              \* timestamp of the first record
MaxT == 10           \* largest timestamp of a transfer
MaxOff == 1          \* largest window offset
MaxVal == 1          \* largest raw token value of a transfer
MaxDec == 1          \* largest token decimals
MaxThr == 1          \* largest max_txs_per_buyer
MaxWei == 1          \* largest native value of a transaction or internal transfer
MaxPrice == 1        \* largest price (native USD price, flat token price)
MaxInternal == 1     \* internal transfers in a txlistinternal response
MaxFlow == 1         \* largest native inflow or outflow of one lookup during a run
MaxLag == 0          \* the clock reads at most MaxT + 1 + MaxLag

(***************************************************************************)
(* Addresses as the API returns them (mixed case) and str.lower.           *)
(***************************************************************************)
ZeroAddr == "0x0000"
DeadAddr == "0x00dead"
RawAddrs == {ZeroAddr, "0x00DEAD", "0xaa", "0xAA", "0xbb"}

Lower(s) ==
    CASE s = "0x00DEAD" -> DeadAddr
      [] s = "0xAA" -> "0xaa"
      [] OTHER -> s

EXCLUDE_ADDRESSES == {ZeroAddr, DeadAddr}

Addrs == {Lower(s) : s \in RawAddrs}

Hashes == {"", "h1", "h2"}

(***************************************************************************)
(* Python dicts: functions with a finite domain.                           *)
(***************************************************************************)
Empty == <<>>

Get(d, k, default) == IF k \in DOMAIN d THEN d[k] ELSE default

\* d.update(u), also d[k] = v as Update(d, k :> v)
Update(d, u) == u @@ d

RECURSIVE Pow10(_)
Pow10(n) == IF n = 0 THEN 1 ELSE 10 * Pow10(n - 1)

\* token amounts are counted in 1/Scale
Scale == Pow10(2 * MaxDec)

\* value / (10 ** decimal), line 622: raw integer -> amount
ToAmount(value, decimal) == (value * Scale) \div Pow10(decimal)

\* amount / (10 ** decimal), lines 789-790: amount -> amount
DivPow10(amount, decimal) == amount \div Pow10(decimal)

(***************************************************************************)
(* The transfer records a replay step may draw.                            *)
(***************************************************************************)
TransferRecords(minTs) ==
    [from : RawAddrs, to : RawAddrs, value : 0..MaxVal,
     timeStamp : minTs..MaxT, hash : Hashes]

NewLedgerEntry(timestamp) ==
    [first_buy_time |-> timestamp, buy_amount |-> 0, sell_amount |-> 0,
     buy_count |-> 0, sell_count |-> 0, last_sell_time |-> 0]

NewEarlyBuyer(addr, timestamp) ==
    [address |-> addr, first_buy_time |-> timestamp, buy_amount |-> 0,
     sell_amount |-> 0, buy_count |-> 0, sell_count |-> 0, last_sell_time |-> 0]

creation_time == T0
start_cutoff_time == creation_time + start_seconds
end_cutoff_time == creation_time + end_seconds

Unread == "unread"
NoTx == [kind |-> "none"]
NoCall == [kind |-> "none"]

(***************************************************************************)
(* The parts of the program outside a run of _analyze_transfers, at rest.  *)
(***************************************************************************)
\* a lock nobody holds; a held lock is the set of its one holder
Free == {}

ListIdle == transfers = <<>> /\ run = 1 /\ first_result = Empty

FetchIdle == page = 1 /\ all_transfers = 0 /\ responses = <<>>

ServerIdle ==
    /\ active_tasks = <<>>
    /\ analysis_queue_data = <<>>
    /\ queue_lock = Free
    /\ handler = Empty
    /\ worker = Empty
    /\ sessions = Empty

PaymentIdle ==
    /\ payment_tokens = Empty
    /\ used_tx_hashes = <<>>
    /\ verifier = Empty
    /\ payer = Empty

ExtIdle == ListIdle /\ FetchIdle /\ ServerIdle /\ PaymentIdle

Init ==
    /\ pc = "replay"
    /\ ExtIdle
    /\ nTransfers = 0
    /\ lastTs = T0
    /\ \E d \in 1..MaxDec : token_info = [decimals |-> d]
    /\ start_seconds \in 0..MaxOff
    /\ end_seconds \in start_seconds..MaxOff
    /\ api_key = Unread
    /\ all_buyers = Empty
    /\ address_txs = Empty
    /\ early_buyers = Empty
    /\ early_order = <<>>
    /\ valid_buyers = <<>>
    /\ tx_cache = Empty
    /\ cursor = <<1, 1>>
    /\ buyers = <<>>
    /\ stats = Empty
    /\ lastTx = NoTx
    /\ credited = [a \in Addrs |-> 0]
    /\ debited = [a \in Addrs |-> 0]
    /\ seenTo = {}
    /\ seenFrom = {}
    /\ lastSent = [a \in Addrs |-> 0]
    /\ calls = <<>>
    /\ lastCall = NoCall

(***************************************************************************)
(* One iteration of the replay loop, lines 597-646.                        *)
(***************************************************************************)
\* CreditBuy that passes over a transfer of value 0
CreditBuySkipZero(ledger, to_addr, token_amount, timestamp) ==
    IF token_amount = 0 THEN ledger
    ELSE LET l1 == IF to_addr \notin DOMAIN ledger
                   THEN Update(ledger, to_addr :> NewLedgerEntry(timestamp))
                   ELSE ledger
         IN  [l1 EXCEPT ![to_addr].buy_amount = @ + token_amount,
                        ![to_addr].buy_count = @ + 1]

\* lines 609-626: the recipient's entry, created if absent, gets the buy credit
CreditBuy(ledger, to_addr, token_amount, timestamp) ==
    LET l1 == IF to_addr \notin DOMAIN ledger
              THEN Update(ledger, to_addr :> NewLedgerEntry(timestamp))
              ELSE ledger
    IN  [l1 EXCEPT ![to_addr].buy_amount = @ + token_amount,
                   ![to_addr].buy_count = @ + 1]

\* DebitSell that debits without the membership test, creating the sender's entry
DebitSellUnchecked(ledger, from_addr, token_amount, timestamp) ==
    LET l1 == IF from_addr \notin DOMAIN ledger
              THEN Update(ledger, from_addr :> NewLedgerEntry(timestamp))
              ELSE ledger
    IN  [l1 EXCEPT ![from_addr].sell_amount = @ + token_amount,
                   ![from_addr].sell_count = @ + 1,
                   ![from_addr].last_sell_time = timestamp]

\* lines 628-632: the sender's entry, if there is one, gets the sell debit
DebitSell(ledger, from_addr, token_amount, timestamp) ==
    IF from_addr \in DOMAIN ledger
    THEN [ledger EXCEPT ![from_addr].sell_amount = @ + token_amount,
                        ![from_addr].sell_count = @ + 1,
                        ![from_addr].last_sell_time = timestamp]
    ELSE ledger

\* lines 619, 625-626, 633-634: the transaction records
RecordTxs(txs, ledgerBefore, ledgerMid, from_addr, to_addr, tx_hash, timestamp) ==
    LET t0 == IF to_addr \notin DOMAIN ledgerBefore
              THEN Update(txs, to_addr :> <<>>)
              ELSE txs
        t1 == IF tx_hash # ""
              THEN [t0 EXCEPT ![to_addr] = Append(@, <<tx_hash, "buy", timestamp>>)]
              ELSE t0
    IN  IF from_addr \in DOMAIN ledgerMid /\ tx_hash # "" /\ from_addr \in DOMAIN t1
        THEN [t1 EXCEPT ![from_addr] = Append(@, <<tx_hash, "sell", timestamp>>)]
        ELSE t1

\* InWindow with the end of the window left out
InWindowOpenEnd(timestamp) ==
    start_cutoff_time <= timestamp /\ timestamp < end_cutoff_time

\* line 637: the window test
InWindow(timestamp) ==
    start_cutoff_time <= timestamp /\ timestamp <= end_cutoff_time

\* IsExcluded that tests the sender alone
IsExcludedSenderOnly(from_addr, to_addr) == from_addr \in EXCLUDE_ADDRESSES

\* line 606
IsExcluded(from_addr, to_addr) ==
    from_addr \in EXCLUDE_ADDRESSES \/ to_addr \in EXCLUDE_ADDRESSES

ReplayTransfer(tx) ==
    LET from_addr == Lower(tx.from)
        to_addr == Lower(tx.to)
        value == tx.value
        timestamp == tx.timeStamp
        decimal == token_info.decimals
        tx_hash == tx.hash
        token_amount == ToAmount(value, decimal)
        mid == CreditBuy(all_buyers, to_addr, token_amount, timestamp)
        sold == from_addr \in DOMAIN mid
        joins == InWindow(timestamp) /\ to_addr \notin DOMAIN early_buyers
    IN
    /\ pc = "replay"
    /\ UNCHANGED extVars
    /\ nTransfers < MaxLen
    /\ nTransfers = 0 => timestamp = creation_time
    /\ nTransfers' = nTransfers + 1
    /\ lastTs' = timestamp
    /\ IF IsExcluded(from_addr, to_addr)
       THEN /\ UNCHANGED <<all_buyers, address_txs, early_buyers, early_order,
                           credited, debited, seenTo, seenFrom, lastSent>>
            /\ lastTx' = [kind |-> "excluded", from |-> from_addr, to |-> to_addr,
                          amount |-> token_amount, timeStamp |-> timestamp]
       ELSE /\ all_buyers' = DebitSell(mid, from_addr, token_amount, timestamp)
            /\ address_txs' = RecordTxs(address_txs, all_buyers, mid, from_addr,
                                        to_addr, tx_hash, timestamp)
            /\ early_buyers' = IF joins
                               THEN Update(early_buyers,
                                           to_addr :> NewEarlyBuyer(to_addr, timestamp))
                               ELSE early_buyers
            /\ early_order' = IF joins THEN Append(early_order, to_addr)
                              ELSE early_order
            /\ credited' = [credited EXCEPT ![to_addr] = @ + value]
            /\ debited' = IF sold THEN [debited EXCEPT ![from_addr] = @ + value]
                          ELSE debited
            /\ seenTo' = seenTo \cup {to_addr}
            /\ seenFrom' = seenFrom \cup {from_addr}
            /\ lastSent' = [lastSent EXCEPT ![from_addr] = timestamp]
            /\ lastTx' = [kind |-> "processed", from |-> from_addr, to |-> to_addr,
                          amount |-> token_amount, timeStamp |-> timestamp]
    /\ UNCHANGED <<pc, token_info, start_seconds, end_seconds, api_key, valid_buyers,
                   tx_cache, cursor, buyers, stats, calls, lastCall>>

Replay == \E tx \in TransferRecords(lastTs) : ReplayTransfer(tx)

(***************************************************************************)
(* Exact fractions <<n, d>>, d > 0, in lowest terms: the model's floats.   *)
(***************************************************************************)
RECURSIVE Gcd(_, _)
Gcd(a, b) == IF b = 0 THEN a ELSE Gcd(b, a % b)

Abs(n) == IF n < 0 THEN -n ELSE n

RNorm(n, d) ==
    LET g == Gcd(Abs(n), Abs(d))
        sgn == IF d < 0 THEN -1 ELSE 1
    IN  <<(sgn * n) \div g, (sgn * d) \div g>>

RInt(n) == <<n, 1>>
RZero == RInt(0)
RAdd(x, y) == RNorm(x[1] * y[2] + y[1] * x[2], x[2] * y[2])
RSub(x, y) == RNorm(x[1] * y[2] - y[1] * x[2], x[2] * y[2])
RMul(x, y) == RNorm(x[1] * y[1], x[2] * y[2])
RDiv(x, y) == RNorm(x[1] * y[2], x[2] * y[1])
RPos(x) == x[1] > 0

\* a token amount (a count of 1/Scale) as a fraction
TokR(amount) == RNorm(amount, Scale)

(***************************************************************************)
(* _call_etherscan_v2_api, lines 419-442, as the responses it can return,  *)
(* and _get_bnb_amount_from_tx, lines 301-379.                             *)
(***************************************************************************)
NoneVal == "None"
BadInt == "bad"

\* the addresses a transaction or internal transfer may name
RespAddrs == RawAddrs \ {ZeroAddr, "0x00DEAD"}

\* a value field: a hex string, a decimal string, or one int() rejects
ValueFields ==
    [fmt : {"hex", "dec"}, n : 0..MaxWei] \cup {[fmt |-> BadInt, n |-> 0]}

\* eth_getTransactionByHash.  "error": the call failed and line 442 answered
\* {"status": "0", "result": []}; "string": the result is an error string.
MainResponses ==
    {[kind |-> "error"], [kind |-> "string"]}
    \cup [kind : {"tx"}, from : RespAddrs, to : RespAddrs \cup {NoneVal},
          value : ValueFields]

InternalTransfers == [from : RespAddrs, to : RespAddrs, value : ValueFields]

RECURSIVE SeqsUpTo(_, _)
SeqsUpTo(S, n) ==
    IF n = 0 THEN {<<>>}
    ELSE LET shorter == SeqsUpTo(S, n - 1)
         IN  shorter \cup {Append(q, x) : q \in {r \in shorter : Len(r) = n - 1}, x \in S}

\* txlistinternal.  "error": status "0"; "string": status "1" with a string result;
\* "list": status "1" with a list, possibly empty.
InternalResponses ==
    {[kind |-> "error"], [kind |-> "string"]}
    \cup [kind : {"list"}, result : SeqsUpTo(InternalTransfers, MaxInternal)]

\* int(value_hex, 16) / int(value_hex) / int(tx.get('value', 0))
ParseInt(v) == v.n
IntRaises(v) == v.fmt = BadInt

\* lines 317-340 raise: None.lower() at 326, int() at 331
MainRaises(main) ==
    main.kind = "tx" /\ (main.to = NoneVal \/ IntRaises(main.value))

\* lines 354-365 raise: str.get at 358, int() at 360
InternalRaises(int) ==
    \/ int.kind = "string"
    \/ int.kind = "list" /\ \E i \in 1..Len(int.result) : IntRaises(int.result[i].value)

ZeroFlow == [bnb_in |-> 0, bnb_out |-> 0, net_bnb |-> 0]

RECURSIVE SumInternal(_, _, _)
\* lines 357-365: the values of the entries whose field `side` is the address
SumInternal(entries, side, address) ==
    IF entries = <<>> THEN 0
    ELSE LET tx == Head(entries)
             hit == Lower(IF side = "to" THEN tx.to ELSE tx.from) = address
         IN  (IF hit THEN ParseInt(tx.value) ELSE 0)
             + SumInternal(Tail(entries), side, address)

\* lines 336-340
MainOut(main, address) ==
    IF main.kind = "tx" /\ Lower(main.from) = address /\ ParseInt(main.value) > 0
    THEN ParseInt(main.value) ELSE 0

MainIn(main, address) ==
    IF /\ main.kind = "tx"
       /\ ~(Lower(main.from) = address /\ ParseInt(main.value) > 0)
       /\ Lower(main.to) = address /\ ParseInt(main.value) > 0
    THEN ParseInt(main.value) ELSE 0

\* _get_bnb_amount_from_tx(api_key, tx_hash, address) given the two responses
GetBnbAmountFromTx(rawAddress, main, int) ==
    LET address == Lower(rawAddress)
    IN  IF main.kind = "string" THEN ZeroFlow                  \* lines 321-323
        ELSE IF MainRaises(main) THEN ZeroFlow                 \* lines 377-379
        ELSE IF InternalRaises(int) THEN ZeroFlow              \* lines 377-379
        ELSE LET entries == IF int.kind = "list" THEN int.result ELSE <<>>
                 total_bnb_in == MainIn(main, address) + SumInternal(entries, "to", address)
                 total_bnb_out == MainOut(main, address) + SumInternal(entries, "from", address)
             IN  [bnb_in |-> total_bnb_in, bnb_out |-> total_bnb_out,
                  net_bnb |-> total_bnb_in - total_bnb_out]

\* what a lookup for an address can return during a run
LookupResultsOf ==
    [a \in Addrs |->
        {r \in {GetBnbAmountFromTx(a, m, i) : m \in MainResponses, i \in InternalResponses} :
            r.bnb_in <= MaxFlow /\ r.bnb_out <= MaxFlow}]

\* line 569: an empty transfer list is refused
ReturnNoData ==
    /\ pc = "replay"
    /\ UNCHANGED extVars
    /\ nTransfers = 0
    /\ pc' = "failed"
    /\ UNCHANGED <<nTransfers, lastTs, token_info, start_seconds, end_seconds, api_key,
                   all_buyers, address_txs, early_buyers, early_order, valid_buyers,
                   tx_cache, cursor, buyers, stats, lastTx, credited, debited, seenTo,
                   seenFrom, lastSent, calls, lastCall>>

\* lines 649-651 and 778-780: every cohort entry takes the ledger's fields
MergeLedger(cohort, ledger) ==
    [a \in DOMAIN cohort |->
        IF a \in DOMAIN ledger THEN Update(cohort[a], ledger[a]) ELSE cohort[a]]

\* line 654
UseBnbCalculation(key, info) == key # "" /\ Get(info, "bnb_price_usd", 0) > 0

(***************************************************************************)
(* The end of the replay loop, lines 648-656.                              *)
(***************************************************************************)
EndReplay ==
    /\ pc = "replay"
    /\ UNCHANGED extVars
    /\ nTransfers > 0
    /\ early_buyers' = MergeLedger(early_buyers, all_buyers)
    /\ \E key \in {"", "KEY"}, p \in 0..MaxPrice :
          /\ api_key' = key
          /\ token_info' \in
                {Update(token_info, "bnb_price_usd" :> p)} \cup
                {Update(token_info, [bnb_price_usd |-> p, max_txs_per_buyer |-> m]) :
                    m \in 0..MaxThr}
          /\ pc' = IF UseBnbCalculation(key, token_info') THEN "collect" ELSE "report"
    /\ lastTx' = NoTx
    /\ UNCHANGED <<nTransfers, lastTs, start_seconds, end_seconds, all_buyers,
                   address_txs, early_order, valid_buyers, tx_cache, cursor, buyers,
                   stats, credited, debited, seenTo, seenFrom, lastSent, calls, lastCall>>

(***************************************************************************)
(* Stage 1, lines 661-698: the bot filter.                                 *)
(***************************************************************************)
DefaultMaxTxs == 100

TxCount(txs, addr) == IF addr \in DOMAIN txs THEN Len(txs[addr]) ELSE 0

\* line 683
IsBot(txs, addr, max_txs_per_buyer) == TxCount(txs, addr) > max_txs_per_buyer

\* IsValidBuyer that lets a bot through
IsValidBuyerAnyCount(txs, addr, max_txs_per_buyer) == TxCount(txs, addr) > 0

\* line 673 false and line 683 false
IsValidBuyer(txs, addr, max_txs_per_buyer) ==
    TxCount(txs, addr) > 0 /\ ~IsBot(txs, addr, max_txs_per_buyer)

ZeroBnb(is_bot) ==
    [bnb_spent |-> 0, bnb_received |-> 0, bnb_profit |-> 0, is_bot |-> is_bot]

\* lines 671-693: what stage 1 writes into a cohort entry
Classify(data, txs, addr, max_txs_per_buyer) ==
    IF TxCount(txs, addr) = 0 THEN Update(data, ZeroBnb(FALSE))
    ELSE IF IsBot(txs, addr, max_txs_per_buyer) THEN Update(data, ZeroBnb(TRUE))
    ELSE data

Collect ==
    /\ pc = "collect"
    /\ UNCHANGED extVars
    /\ LET max_txs_per_buyer == Get(token_info, "max_txs_per_buyer", DefaultMaxTxs)
       IN  /\ early_buyers' = [a \in DOMAIN early_buyers |->
                                 Classify(early_buyers[a], address_txs, a, max_txs_per_buyer)]
           /\ valid_buyers' = SelectSeq(early_order,
                                 LAMBDA a : IsValidBuyer(address_txs, a, max_txs_per_buyer))
    /\ cursor' = <<1, 1>>
    /\ pc' = "query"
    /\ UNCHANGED <<nTransfers, lastTs, token_info, start_seconds, end_seconds, api_key,
                   all_buyers, address_txs, early_order, tx_cache, buyers, stats, lastTx,
                   credited, debited, seenTo, seenFrom, lastSent, calls, lastCall>>

(***************************************************************************)
(* Stage 2, lines 713-721: one record of one valid buyer per step.         *)
(***************************************************************************)
CursorAddr == valid_buyers[cursor[1]]
CursorHash == address_txs[CursorAddr][cursor[2]][1]

Advance(c) ==
    IF c[2] < Len(address_txs[valid_buyers[c[1]]]) THEN <<c[1], c[2] + 1>>
    ELSE <<c[1] + 1, 1>>

\* NeedsLookup that ignores the cache
NeedsLookupAlways(cache, addr, tx_hash) == TRUE

\* line 719
NeedsLookup(cache, addr, tx_hash) == tx_hash \notin DOMAIN Get(cache, addr, Empty)

\* StoreResult into a cache keyed by hash alone: every address's row gets the result
StoreResultByHash(cache, addr, tx_hash, result) ==
    [b \in DOMAIN cache \cup {addr} |-> Update(Get(cache, b, Empty), tx_hash :> result)]

\* line 720
StoreResult(cache, addr, tx_hash, result) ==
    Update(cache, addr :> Update(Get(cache, addr, Empty), tx_hash :> result))

QueryLookup ==
    /\ pc = "query"
    /\ UNCHANGED extVars
    /\ cursor[1] <= Len(valid_buyers)
    /\ NeedsLookup(tx_cache, CursorAddr, CursorHash)
    /\ \E result \in LookupResultsOf[CursorAddr] :
          tx_cache' = StoreResult(tx_cache, CursorAddr, CursorHash, result)
    /\ calls' = Append(calls, <<CursorAddr, CursorHash>>)
    /\ cursor' = Advance(cursor)
    /\ UNCHANGED <<pc, nTransfers, lastTs, token_info, start_seconds, end_seconds,
                   api_key, all_buyers, address_txs, early_buyers, early_order,
                   valid_buyers, buyers, stats, lastTx, credited, debited, seenTo,
                   seenFrom, lastSent, lastCall>>

QuerySkip ==
    /\ pc = "query"
    /\ UNCHANGED extVars
    /\ cursor[1] <= Len(valid_buyers)
    /\ ~NeedsLookup(tx_cache, CursorAddr, CursorHash)
    /\ cursor' = Advance(cursor)
    /\ UNCHANGED <<pc, nTransfers, lastTs, token_info, start_seconds, end_seconds,
                   api_key, all_buyers, address_txs, early_buyers, early_order,
                   valid_buyers, tx_cache, buyers, stats, lastTx, credited, debited,
                   seenTo, seenFrom, lastSent, calls, lastCall>>

(***************************************************************************)
(* Stage 3, lines 745-765: the sums over the cache.                        *)
(***************************************************************************)
RECURSIVE SumAnyRecord(_, _, _)
\* the sum of one field over every record, whatever its direction
SumAnyRecord(cache, buyer_txs, fld) ==
    IF buyer_txs = <<>> THEN 0
    ELSE Get(cache, Head(buyer_txs)[1], ZeroFlow)[fld]
         + SumAnyRecord(cache, Tail(buyer_txs), fld)

\* a variant of lines 751-765 that ignores the record's direction
BnbFieldsAnyRecord(cache, buyer_txs) ==
    LET bnb_spent == SumAnyRecord(cache, buyer_txs, "bnb_out")
        bnb_received == SumAnyRecord(cache, buyer_txs, "bnb_in")
    IN  [bnb_spent |-> bnb_spent, bnb_received |-> bnb_received,
         bnb_profit |-> bnb_received - bnb_spent, is_bot |-> FALSE]

RECURSIVE SumFlow(_, _, _)
\* lines 751-760: bnb_out over the 'buy' records, bnb_in over the others
SumFlow(cache, buyer_txs, direction) ==
    IF buyer_txs = <<>> THEN 0
    ELSE LET rec == Head(buyer_txs)
             bnb_data == Get(cache, rec[1], ZeroFlow)
             part == IF direction = "buy"
                     THEN (IF rec[2] = "buy" THEN bnb_data.bnb_out ELSE 0)
                     ELSE (IF rec[2] = "buy" THEN 0 ELSE bnb_data.bnb_in)
         IN  part + SumFlow(cache, Tail(buyer_txs), direction)

\* lines 762-765
BnbFields(cache, buyer_txs) ==
    LET bnb_spent == SumFlow(cache, buyer_txs, "buy")
        bnb_received == SumFlow(cache, buyer_txs, "sell")
    IN  [bnb_spent |-> bnb_spent, bnb_received |-> bnb_received,
         bnb_profit |-> bnb_received - bnb_spent, is_bot |-> FALSE]

InSeq(q, x) == \E i \in 1..Len(q) : q[i] = x

ComputeProfit ==
    /\ pc = "query"
    /\ UNCHANGED extVars
    /\ cursor[1] > Len(valid_buyers)
    /\ early_buyers' = [a \in DOMAIN early_buyers |->
                          IF InSeq(valid_buyers, a)
                          THEN Update(early_buyers[a],
                                      BnbFields(tx_cache[a], address_txs[a]))
                          ELSE early_buyers[a]]
    /\ pc' = "report"
    /\ UNCHANGED <<nTransfers, lastTs, token_info, start_seconds, end_seconds, api_key,
                   all_buyers, address_txs, early_order, valid_buyers, tx_cache, cursor,
                   buyers, stats, lastTx, credited, debited, seenTo, seenFrom, lastSent, calls,
                   lastCall>>

(***************************************************************************)
(* The reports, lines 777-948.                                             *)
(***************************************************************************)
\* datetime.fromtimestamp(t).strftime('%Y-%m-%d %H:%M:%S'): a fixed-width string of
\* zero-padded decimal fields, here the four digits of the seconds count
FormatTime(t) == <<(t \div 1000) % 10, (t \div 100) % 10, (t \div 10) % 10, t % 10>>

\* the timestamp a formatted time stands for
ParseTime(str) == 1000 * str[1] + 100 * str[2] + 10 * str[3] + str[4]

\* str <= str of Python: lexicographic
RECURSIVE StrLeq(_, _)
StrLeq(x, y) ==
    IF x = <<>> THEN TRUE
    ELSE IF y = <<>> THEN FALSE
    ELSE IF Head(x) # Head(y) THEN Head(x) < Head(y)
    ELSE StrLeq(Tail(x), Tail(y))

SentinelMultiple == RNorm(99999, 100)      \* 999.99, line 852

Holding == "still holding"
Cleared == "cleared"

\* NativeFlowValuation whose total value leaves the remaining holding out
NativeFlowValuationSoldOnly(buy_amount, sell_amount, holding, bnb_spent, bnb_received, bnb_price_usd) ==
    LET spent == RInt(bnb_spent)
        received == RInt(bnb_received)
        price == RInt(bnb_price_usd)
        holding_value_bnb ==
            IF sell_amount > 0 /\ bnb_received > 0
            THEN RMul(TokR(holding), RDiv(received, TokR(sell_amount)))
            ELSE IF buy_amount > 0 /\ bnb_spent > 0
            THEN RMul(TokR(holding), RDiv(spent, TokR(buy_amount)))
            ELSE RZero
        total_value_bnb == received
        profit_multiple ==
            IF bnb_spent > 0 THEN RDiv(total_value_bnb, spent)
            ELSE IF bnb_received > 0 /\ bnb_spent = 0 THEN SentinelMultiple
            ELSE RZero
    IN  [buy_value_usd |-> RMul(spent, price),
         sell_value_usd |-> RMul(received, price),
         holding_value_usd |-> RMul(holding_value_bnb, price),
         total_profit_usd |-> RMul(RSub(total_value_bnb, spent), price),
         profit_multiple |-> profit_multiple,
         bnb_spent |-> spent,
         bnb_received |-> received,
         bnb_profit |-> RInt(bnb_received - bnb_spent)]

\* lines 830-865: native-flow mode
NativeFlowValuation(buy_amount, sell_amount, holding, bnb_spent, bnb_received, bnb_price_usd) ==
    LET spent == RInt(bnb_spent)
        received == RInt(bnb_received)
        price == RInt(bnb_price_usd)
        holding_value_bnb ==
            IF sell_amount > 0 /\ bnb_received > 0
            THEN RMul(TokR(holding), RDiv(received, TokR(sell_amount)))
            ELSE IF buy_amount > 0 /\ bnb_spent > 0
            THEN RMul(TokR(holding), RDiv(spent, TokR(buy_amount)))
            ELSE RZero
        total_value_bnb == RAdd(received, holding_value_bnb)
        profit_multiple ==
            IF bnb_spent > 0 THEN RDiv(total_value_bnb, spent)
            ELSE IF bnb_received > 0 /\ bnb_spent = 0 THEN SentinelMultiple
            ELSE RZero
    IN  [buy_value_usd |-> RMul(spent, price),
         sell_value_usd |-> RMul(received, price),
         holding_value_usd |-> RMul(holding_value_bnb, price),
         total_profit_usd |-> RMul(RSub(total_value_bnb, spent), price),
         profit_multiple |-> profit_multiple,
         bnb_spent |-> spent,
         bnb_received |-> received,
         bnb_profit |-> RInt(bnb_received - bnb_spent)]

\* lines 867-882: flat-price mode
FlatPriceValuation(buy_amount, sell_amount, holding, price_usd) ==
    LET price == RInt(price_usd)
        buy_value_usd == RMul(TokR(buy_amount), price)
        sell_value_usd == RMul(TokR(sell_amount), price)
        holding_value_usd == RMul(TokR(holding), price)
    IN  [buy_value_usd |-> buy_value_usd,
         sell_value_usd |-> sell_value_usd,
         holding_value_usd |-> holding_value_usd,
         total_profit_usd |-> RSub(RAdd(sell_value_usd, holding_value_usd), buy_value_usd),
         profit_multiple |-> IF RPos(buy_value_usd)
                             THEN RDiv(RAdd(sell_value_usd, holding_value_usd), buy_value_usd)
                             ELSE RZero,
         bnb_spent |-> RZero, bnb_received |-> RZero, bnb_profit |-> RZero]

\* lines 883-891: no price
NoPriceValuation ==
    [buy_value_usd |-> RZero, sell_value_usd |-> RZero, holding_value_usd |-> RZero,
     total_profit_usd |-> RZero, profit_multiple |-> RZero,
     bnb_spent |-> RZero, bnb_received |-> RZero, bnb_profit |-> RZero]

\* Valuation that tries the flat price before the native flows
ValuationFlatFirst(buy_amount, sell_amount, holding, bnb_spent, bnb_received, bnb_price_usd, price_usd) ==
    IF price_usd > 0
    THEN FlatPriceValuation(buy_amount, sell_amount, holding, price_usd)
    ELSE IF (bnb_spent > 0 \/ bnb_received > 0) /\ bnb_price_usd > 0
    THEN NativeFlowValuation(buy_amount, sell_amount, holding, bnb_spent, bnb_received,
                             bnb_price_usd)
    ELSE NoPriceValuation

\* lines 820-891: the branch taken
Valuation(buy_amount, sell_amount, holding, bnb_spent, bnb_received, bnb_price_usd, price_usd) ==
    IF (bnb_spent > 0 \/ bnb_received > 0) /\ bnb_price_usd > 0
    THEN NativeFlowValuation(buy_amount, sell_amount, holding, bnb_spent, bnb_received,
                             bnb_price_usd)
    ELSE IF price_usd > 0
    THEN FlatPriceValuation(buy_amount, sell_amount, holding, price_usd)
    ELSE NoPriceValuation

\* StatusOf that counts an empty holding as held
StatusOfNonNegative(holding) == IF holding >= 0 THEN Holding ELSE Cleared

\* lines 800-805 and 900: is_holding and the status string
StatusOf(holding) == IF holding > 0 THEN Holding ELSE Cleared

\* lines 800-805: to the present while holding, to the last sale once cleared
HoldingDuration(holding, current_time, first_buy_timestamp, last_sell_timestamp) ==
    IF holding > 0
    THEN current_time - first_buy_timestamp
    ELSE last_sell_timestamp - first_buy_timestamp

\* lines 787-914: one report
MakeReport(addr, data, info, current_time) ==
    LET decimal == info.decimals
        buy_amount == DivPow10(data.buy_amount, decimal)
        sell_amount == DivPow10(data.sell_amount, decimal)
        holding == buy_amount - sell_amount
        sell_ratio == IF buy_amount > 0
                      THEN RMul(RDiv(TokR(sell_amount), TokR(buy_amount)), RInt(100))
                      ELSE RZero
        first_buy_timestamp == data.first_buy_time
        last_sell_timestamp == Get(data, "last_sell_time", current_time)
        holding_duration == HoldingDuration(holding, current_time, first_buy_timestamp,
                                            last_sell_timestamp)
        money == Valuation(buy_amount, sell_amount, holding,
                           Get(data, "bnb_spent", 0), Get(data, "bnb_received", 0),
                           Get(info, "bnb_price_usd", 0), Get(info, "price_usd", 0))
    IN  [address |-> addr,
         first_buy_time |-> FormatTime(first_buy_timestamp),
         buy_amount |-> buy_amount,
         sell_amount |-> sell_amount,
         holding |-> holding,
         sell_ratio |-> sell_ratio,
         status |-> StatusOf(holding),
         buy_count |-> data.buy_count,
         sell_count |-> data.sell_count,
         holding_duration_seconds |-> holding_duration,
         is_bot |-> Get(data, "is_bot", FALSE)] @@ money

RECURSIVE BuildReports(_, _, _, _)
\* lines 787 and 893: one report per cohort entry, in the dict's order
BuildReports(order, cohort, info, current_time) ==
    IF order = <<>> THEN <<>>
    ELSE <<MakeReport(Head(order), cohort[Head(order)], info, current_time)>>
         \o BuildReports(Tail(order), cohort, info, current_time)

RECURSIVE InsertSorted(_, _)
\* x after every element whose key is <= x's key
InsertSorted(sorted, x) ==
    IF sorted = <<>> THEN <<x>>
    ELSE IF StrLeq(Head(sorted).first_buy_time, x.first_buy_time)
    THEN <<Head(sorted)>> \o InsertSorted(Tail(sorted), x)
    ELSE <<x>> \o sorted

\* SortByFirstBuy that leaves the list as it was built
KeepBuildOrder(list) == list

RECURSIVE SortByFirstBuy(_)
\* line 917: list.sort is stable
SortByFirstBuy(list) ==
    IF list = <<>> THEN <<>>
    ELSE InsertSorted(SortByFirstBuy(SubSeq(list, 1, Len(list) - 1)), list[Len(list)])

RECURSIVE SumBuy(_)
SumBuy(list) == IF list = <<>> THEN 0 ELSE Head(list).buy_amount + SumBuy(Tail(list))

\* MakeStats that counts as cleared only the reports with a negative holding
MakeStatsNegativeOnly(list) ==
    LET total_buyers == Len(list)
        cleared_buyers == Cardinality({i \in 1..Len(list) : list[i].holding < 0})
        holding_buyers == total_buyers - cleared_buyers
    IN  [total_buyers |-> total_buyers,
         total_buy |-> SumBuy(list),
         cleared_buyers |-> cleared_buyers,
         holding_buyers |-> holding_buyers,
         cleared_ratio |-> IF total_buyers > 0
                           THEN RNorm(cleared_buyers * 100, total_buyers) ELSE RZero,
         holding_ratio |-> IF total_buyers > 0
                           THEN RNorm(holding_buyers * 100, total_buyers) ELSE RZero]

\* lines 920-926
MakeStats(list) ==
    LET total_buyers == Len(list)
        cleared_buyers == Cardinality({i \in 1..Len(list) : list[i].holding <= 0})
        holding_buyers == total_buyers - cleared_buyers
    IN  [total_buyers |-> total_buyers,
         total_buy |-> SumBuy(list),
         cleared_buyers |-> cleared_buyers,
         holding_buyers |-> holding_buyers,
         cleared_ratio |-> IF total_buyers > 0
                           THEN RNorm(cleared_buyers * 100, total_buyers) ELSE RZero,
         holding_ratio |-> IF total_buyers > 0
                           THEN RNorm(holding_buyers * 100, total_buyers) ELSE RZero]

Report ==
    /\ pc = "report"
    /\ UNCHANGED extVars
    /\ \E price_usd \in 0..MaxPrice, current_time \in (MaxT + 1)..(MaxT + 1 + MaxLag) :
         \E info \in {Update(token_info, "price_usd" :> price_usd)},
            cohort \in {MergeLedger(early_buyers, all_buyers)} :
           \E list \in {BuildReports(early_order, cohort, info, current_time)} :
             \E sorted \in {SortByFirstBuy(list)} :
                /\ token_info' = info
                /\ early_buyers' = cohort
                /\ buyers' = sorted
                /\ stats' = MakeStats(sorted)
    /\ pc' = "done"
    /\ UNCHANGED <<nTransfers, lastTs, start_seconds, end_seconds, api_key, all_buyers,
                   address_txs, early_order, valid_buyers, tx_cache, cursor, lastTx,
                   credited, debited, seenTo, seenFrom, lastSent, calls, lastCall>>

Next ==
    \/ Replay
    \/ ReturnNoData
    \/ EndReplay
    \/ Collect
    \/ QueryLookup
    \/ QuerySkip
    \/ ComputeProfit
    \/ Report

\* a whole run of _analyze_transfers
Spec == Init /\ [][Next]_vars

\* the ledger replay alone
NextReplay ==
    \/ Replay
    \/ ReturnNoData

SpecReplay == Init /\ [][NextReplay]_vars

(***************************************************************************)
(* _get_bnb_amount_from_tx on its own: one call, for every observing       *)
(* address and every pair of responses.                                    *)
(***************************************************************************)
InitLookup ==
    /\ pc = "lookup"
    /\ ExtIdle
    /\ nTransfers = 0
    /\ lastTs = T0
    /\ token_info = [decimals |-> MaxDec]
    /\ start_seconds = 0
    /\ end_seconds = 0
    /\ api_key = "KEY"
    /\ all_buyers = Empty
    /\ address_txs = Empty
    /\ early_buyers = Empty
    /\ early_order = <<>>
    /\ valid_buyers = <<>>
    /\ tx_cache = Empty
    /\ cursor = <<1, 1>>
    /\ buyers = <<>>
    /\ stats = Empty
    /\ lastTx = NoTx
    /\ credited = [a \in Addrs |-> 0]
    /\ debited = [a \in Addrs |-> 0]
    /\ seenTo = {}
    /\ seenFrom = {}
    /\ lastSent = [a \in Addrs |-> 0]
    /\ calls = <<>>
    /\ \E address \in RespAddrs, main \in MainResponses, internal \in InternalResponses :
          lastCall = [kind |-> "pending", address |-> address, main |-> main,
                      internal |-> internal]

DoLookup ==
    /\ pc = "lookup"
    /\ UNCHANGED extVars
    /\ lastCall.kind = "pending"
    /\ lastCall' = [kind |-> "returned", address |-> lastCall.address,
                    main |-> lastCall.main, internal |-> lastCall.internal,
                    result |-> GetBnbAmountFromTx(lastCall.address, lastCall.main,
                                                  lastCall.internal)]
    /\ UNCHANGED <<pc, nTransfers, lastTs, token_info, start_seconds, end_seconds,
                   api_key, all_buyers, address_txs, early_buyers, early_order,
                   valid_buyers, tx_cache, cursor, buyers, stats, lastTx, credited,
                   debited, seenTo, seenFrom, lastSent, calls>>

NextLookup == DoLookup

SpecLookup == InitLookup /\ [][NextLookup]_vars

(***************************************************************************)
(* The report stage on its own, lines 777-948: _analyze_transfers from the *)
(* second merge on, for a cohort of one address and every ledger entry and *)
(* native-flow result the earlier stages can leave behind.  Only the       *)
(* variables the report stage reads carry a drawn value.                   *)
(***************************************************************************)
MaxRaw == 2          \* raw token units bought, and sold, by the address
MaxNative == 5       \* wei spent, and received, by the address

ReportAddr == "0xaa"

\* the ledger entries lines 610-634 can have built for an address: at least one buy,
\* and a sell time exactly when something was debited
LedgerEntries(decimal) ==
    {[first_buy_time |-> fb, buy_amount |-> ToAmount(b, decimal),
      sell_amount |-> ToAmount(s, decimal), buy_count |-> 1,
      sell_count |-> IF ls = 0 THEN 0 ELSE 1, last_sell_time |-> ls] :
        fb \in T0..MaxT, b \in 0..MaxRaw, s \in 0..MaxRaw,
        ls \in {0} \cup (T0..MaxT)}

\* a ledger entry as the replay leaves it: timestamps ascend, and nothing is sold
\* without a debit
IsLedgerEntry(e) ==
    /\ e.last_sell_time # 0 => e.last_sell_time >= e.first_buy_time
    /\ e.sell_amount > 0 => e.last_sell_time # 0

\* what lines 671-765 add to a cohort entry: nothing without use_bnb_calculation,
\* zeros and the flag for a bot or an address with no records, the sums otherwise
\* (nothing is received without a sell record)
BnbOutcomes(e) ==
    {Empty, ZeroBnb(TRUE), ZeroBnb(FALSE)}
    \cup {[bnb_spent |-> sp, bnb_received |-> rc, bnb_profit |-> rc - sp, is_bot |-> FALSE] :
             sp \in 0..MaxNative,
             rc \in IF e.last_sell_time = 0 THEN {0} ELSE 0..MaxNative}

InitReport ==
    /\ pc = "report"
    /\ ExtIdle
    /\ nTransfers = 1
    /\ lastTs = MaxT
    /\ start_seconds = 0
    /\ end_seconds = MaxOff
    /\ \E d \in 1..MaxDec :
         \E e \in {x \in LedgerEntries(d) : IsLedgerEntry(x)} :
           \E bnb \in BnbOutcomes(e) :
             \E key \in IF bnb = Empty THEN {"", "KEY"} ELSE {"KEY"} :
               \E p \in IF bnb = Empty
                        THEN (IF key = "" THEN 0..MaxPrice ELSE {0})
                        ELSE 1..MaxPrice :
                  /\ token_info = [decimals |-> d, bnb_price_usd |-> p]
                  /\ api_key = key
                  /\ all_buyers = (ReportAddr :> e)
                  /\ early_buyers =
                        (ReportAddr :> Update(Update(NewEarlyBuyer(ReportAddr, e.first_buy_time),
                                                     e), bnb))
    /\ address_txs = Empty
    /\ early_order = <<ReportAddr>>
    /\ valid_buyers = <<>>
    /\ tx_cache = Empty
    /\ cursor = <<1, 1>>
    /\ buyers = <<>>
    /\ stats = Empty
    /\ lastTx = NoTx
    /\ credited = [a \in Addrs |-> 0]
    /\ debited = [a \in Addrs |-> 0]
    /\ seenTo = {}
    /\ seenFrom = {}
    /\ lastSent = [a \in Addrs |-> 0]
    /\ calls = <<>>
    /\ lastCall = NoCall

NextReport == Report

SpecReport == InitReport /\ [][NextReport]_vars

(***************************************************************************)
(* The report stage for a cohort of two addresses in either insertion      *)
(* order, without native flows.  The window is the single second MaxT, so  *)
(* both joined the cohort then, each having bought first then or earlier.  *)
(***************************************************************************)
OtherAddr == "0xbb"

\* the ledger entries of a cohort member here: a first buy before the window means
\* a second buy inside it
CohortLedgerEntries(decimal) ==
    {[e EXCEPT !.buy_count = IF e.first_buy_time < MaxT THEN 2 ELSE 1] :
        e \in {x \in LedgerEntries(decimal) : IsLedgerEntry(x)}}

InitOrder ==
    /\ pc = "report"
    /\ ExtIdle
    /\ nTransfers = MaxLen
    /\ lastTs = MaxT
    /\ start_seconds = MaxT - T0
    /\ end_seconds = MaxT - T0
    /\ api_key = ""
    /\ \E d \in 1..MaxDec, p \in 0..MaxPrice :
          token_info = [decimals |-> d, bnb_price_usd |-> p]
    /\ \E order \in {<<ReportAddr, OtherAddr>>, <<OtherAddr, ReportAddr>>} :
          /\ early_order = order
          /\ all_buyers \in [{ReportAddr, OtherAddr} -> CohortLedgerEntries(token_info.decimals)]
          /\ early_buyers = [a \in {ReportAddr, OtherAddr} |->
                                Update(NewEarlyBuyer(a, MaxT), all_buyers[a])]
    /\ address_txs = Empty
    /\ valid_buyers = <<>>
    /\ tx_cache = Empty
    /\ cursor = <<1, 1>>
    /\ buyers = <<>>
    /\ stats = Empty
    /\ lastTx = NoTx
    /\ credited = [a \in Addrs |-> 0]
    /\ debited = [a \in Addrs |-> 0]
    /\ seenTo = {}
    /\ seenFrom = {}
    /\ lastSent = [a \in Addrs |-> 0]
    /\ calls = <<>>
    /\ lastCall = NoCall

NextOrder == Report

SpecOrder == InitOrder /\ [][NextOrder]_vars

(***************************************************************************)
(* The ledger replay of lines 569-651 on a list object, called twice on    *)
(* the same list.  A numeric field of a raw record is an int, a decimal    *)
(* string as the API sends it, a string int() rejects, or absent.          *)
(***************************************************************************)
Missing == "missing"

IntField(n) == [fmt |-> "int", n |-> n]
StrField(n) == [fmt |-> "str", n |-> n]
JunkField == [fmt |-> BadInt, n |-> 0]
NoField == [fmt |-> Missing, n |-> 0]

Defects ==
    {"none", "no_from", "no_to", "no_value", "no_timeStamp", "bad_value", "bad_timeStamp"}

\* well-formed records: both numeric fields as the API sends them or both ints
SoundRecords(minTs) ==
    {[from |-> f, to |-> t, value |-> [fmt |-> m, n |-> MaxVal],
      timeStamp |-> [fmt |-> m, n |-> ts], hash |-> "h1"] :
        f \in {ZeroAddr, "0xaa"}, t \in {"0xaa", "0xbb"}, m \in {"int", "str"},
        ts \in minTs..MaxT}

ApplyDefect(rec, d) ==
    CASE d = "no_from" -> [rec EXCEPT !.from = Missing]
      [] d = "no_to" -> [rec EXCEPT !.to = Missing]
      [] d = "no_value" -> [rec EXCEPT !.value = NoField]
      [] d = "no_timeStamp" -> [rec EXCEPT !.timeStamp = NoField]
      [] d = "bad_value" -> [rec EXCEPT !.value = JunkField]
      [] d = "bad_timeStamp" -> [rec EXCEPT !.timeStamp = JunkField]
      [] OTHER -> rec

\* the first record of a list: its timestamp is the earliest
FirstRecords == {r \in SoundRecords(T0) : r.timeStamp.n = T0}

\* the lists passed in: ascending timestamps from T0, any record possibly defective
TransferLists ==
    {<<>>}
    \cup {<<ApplyDefect(r1, d1)>> : r1 \in FirstRecords, d1 \in Defects}
    \cup UNION {{<<ApplyDefect(r1, d1), ApplyDefect(r2, d2)>> :
                    r2 \in SoundRecords(T0), d1 \in Defects, d2 \in Defects} :
                 r1 \in FirstRecords}

\* lines 574-577: a str field becomes int(field), any other field stays
CoerceField(f) == IF f.fmt = "str" THEN IntField(ParseInt(f)) ELSE f

\* lines 573-581 on one record; timeStamp comes first, so it is converted even when
\* value then raises
CoerceRecord(rec) ==
    IF IntRaises(rec.timeStamp) THEN rec
    ELSE [rec EXCEPT !.timeStamp = CoerceField(@),
                     !.value = IF IntRaises(@) THEN @ ELSE CoerceField(@)]

CoerceRaises(rec) == IntRaises(rec.timeStamp) \/ IntRaises(rec.value)

\* index of the first record int() raises on, 0 if none
RECURSIVE FirstRaising(_, _)
FirstRaising(list, i) ==
    IF i > Len(list) THEN 0
    ELSE IF CoerceRaises(list[i]) THEN i ELSE FirstRaising(list, i + 1)

\* the list after the loop of lines 573-581, which stops at the record that raises
CoerceList(list) ==
    LET k == FirstRaising(list, 1)
    IN  [i \in 1..Len(list) |-> IF k = 0 \/ i <= k THEN CoerceRecord(list[i]) ELSE list[i]]

\* line 583 raises KeyError
MinRaises(list) == \E i \in 1..Len(list) : list[i].timeStamp.fmt = Missing

\* lines 598-601 raise KeyError
IndexRaises(rec) == rec.from = Missing \/ rec.to = Missing \/ rec.value.fmt = Missing

AsTx(rec) ==
    [from |-> rec.from, to |-> rec.to, value |-> rec.value.n,
     timeStamp |-> rec.timeStamp.n, hash |-> rec.hash]

InitList ==
    /\ pc = "coerce"
    /\ nTransfers = 0
    /\ lastTs = T0
    /\ token_info = [decimals |-> MaxDec]
    /\ start_seconds = 0
    /\ end_seconds \in 0..MaxOff
    /\ api_key = Unread
    /\ all_buyers = Empty
    /\ address_txs = Empty
    /\ early_buyers = Empty
    /\ early_order = <<>>
    /\ valid_buyers = <<>>
    /\ tx_cache = Empty
    /\ cursor = <<1, 1>>
    /\ buyers = <<>>
    /\ stats = Empty
    /\ lastTx = NoTx
    /\ credited = [a \in Addrs |-> 0]
    /\ debited = [a \in Addrs |-> 0]
    /\ seenTo = {}
    /\ seenFrom = {}
    /\ lastSent = [a \in Addrs |-> 0]
    /\ calls = <<>>
    /\ lastCall = NoCall
    /\ transfers \in TransferLists
    /\ run = 1
    /\ first_result = Empty
    /\ FetchIdle /\ ServerIdle /\ PaymentIdle

\* lines 569-585: the empty list is refused, the fields are converted in place
CoerceTypes ==
    /\ pc = "coerce"
    /\ transfers' = CoerceList(transfers)
    /\ pc' = IF transfers = <<>> THEN "failed"
             ELSE IF FirstRaising(transfers, 1) > 0 \/ MinRaises(transfers) THEN "raised"
             ELSE "replay"
    /\ UNCHANGED <<nTransfers, lastTs, token_info, start_seconds, end_seconds, api_key,
                   all_buyers, address_txs, early_buyers, early_order, valid_buyers,
                   tx_cache, cursor, buyers, stats, lastTx, credited, debited, seenTo,
                   seenFrom, lastSent, calls, lastCall, run, first_result,
                   fetchVars, serverVars, paymentVars>>

\* one iteration of the loop of lines 597-646 on the next record of the list
ReplayListed ==
    /\ pc = "replay"
    /\ nTransfers < Len(transfers)
    /\ ~IndexRaises(transfers[nTransfers + 1])
    /\ ReplayTransfer(AsTx(transfers[nTransfers + 1]))

\* lines 598-601: indexing a record without the key raises out of the replay
RaiseOnRecord ==
    /\ pc = "replay"
    /\ nTransfers < Len(transfers)
    /\ IndexRaises(transfers[nTransfers + 1])
    /\ pc' = "raised"
    /\ UNCHANGED <<nTransfers, lastTs, token_info, start_seconds, end_seconds, api_key,
                   all_buyers, address_txs, early_buyers, early_order, valid_buyers,
                   tx_cache, cursor, buyers, stats, lastTx, credited, debited, seenTo,
                   seenFrom, lastSent, calls, lastCall, extVars>>

\* lines 648-651: the loop is over, the cohort takes the ledger's fields
EndListReplay ==
    /\ pc = "replay"
    /\ nTransfers = Len(transfers)
    /\ early_buyers' = MergeLedger(early_buyers, all_buyers)
    /\ pc' = "replayed"
    /\ UNCHANGED <<nTransfers, lastTs, token_info, start_seconds, end_seconds, api_key,
                   all_buyers, address_txs, early_order, valid_buyers,
                   tx_cache, cursor, buyers, stats, lastTx, credited, debited, seenTo,
                   seenFrom, lastSent, calls, lastCall, extVars>>

\* what a call leaves to its caller: an exception, the refusal, or the three dicts
ReplayResult ==
    IF pc = "replayed"
    THEN [outcome |-> pc, all_buyers |-> all_buyers, address_txs |-> address_txs,
          early_buyers |-> early_buyers]
    ELSE [outcome |-> pc]

\* a call that starts with the dicts the previous call left
KeptLocals(previous) == previous

\* lines 591-595: the three dicts are locals, created empty by every call
NewLocals(previous) ==
    [all_buyers |-> Empty, address_txs |-> Empty, early_buyers |-> Empty]

\* the caller calls again with the same list object and the same window
CallAgain ==
    /\ pc \in {"replayed", "raised", "failed"}
    /\ run = 1
    /\ first_result' = ReplayResult
    /\ run' = 2
    /\ pc' = "coerce"
    /\ nTransfers' = 0
    /\ lastTs' = T0
    /\ \E locals \in {NewLocals([all_buyers |-> all_buyers, address_txs |-> address_txs,
                                  early_buyers |-> early_buyers])} :
          /\ all_buyers' = locals.all_buyers
          /\ address_txs' = locals.address_txs
          /\ early_buyers' = locals.early_buyers
    /\ early_order' = <<>>
    /\ lastTx' = NoTx
    /\ credited' = [a \in Addrs |-> 0]
    /\ debited' = [a \in Addrs |-> 0]
    /\ seenTo' = {}
    /\ seenFrom' = {}
    /\ lastSent' = [a \in Addrs |-> 0]
    /\ UNCHANGED <<token_info, start_seconds, end_seconds, api_key, valid_buyers,
                   tx_cache, cursor, buyers, stats, calls, lastCall, transfers,
                   fetchVars, serverVars, paymentVars>>

NextList ==
    \/ CoerceTypes
    \/ ReplayListed
    \/ RaiseOnRecord
    \/ EndListReplay
    \/ CallAgain

SpecList == InitList /\ [][NextList]_vars

(***************************************************************************)
(* analyze_token, lines 486-560: the tokentx pages are fetched until one   *)
(* ends the loop, then token_info is built for _analyze_transfers.         *)
(***************************************************************************)
MaxPages == 4        \* tokentx pages requested
MaxPartial == 2      \* records on a page that is not full

\* "offset": 10000, and the test of line 521
PageSize == 10000

\* what _call_etherscan_v2_api returns for a page: status "0" (also its own answer to
\* a network failure, line 442), no result, a string as result, or a list of n records
PageResponses ==
    {[kind |-> k, n |-> 0] : k \in {"error", "empty", "string"}}
    \cup {[kind |-> "list", n |-> n] : n \in (1..MaxPartial) \cup {PageSize}}

\* the loop of lines 492-525 is left by break
BreaksLoop(resp) ==
    \/ resp.kind = "error"                              \* line 509
    \/ resp.kind = "empty"                              \* line 512
    \/ resp.kind = "list" /\ resp.n < PageSize          \* line 522

\* lines 506-508 and 515-516 return a failure from inside the loop
FailsInLoop(resp, fetched) ==
    \/ resp.kind = "error" /\ fetched = 0
    \/ resp.kind = "string"

InitFetch ==
    /\ pc = "fetch"
    /\ nTransfers = 0
    /\ lastTs = T0
    /\ token_info = [decimals |-> 18]
    /\ start_seconds \in 0..MaxOff
    /\ end_seconds \in start_seconds..MaxOff
    /\ api_key = "KEY"
    /\ all_buyers = Empty
    /\ address_txs = Empty
    /\ early_buyers = Empty
    /\ early_order = <<>>
    /\ valid_buyers = <<>>
    /\ tx_cache = Empty
    /\ cursor = <<1, 1>>
    /\ buyers = <<>>
    /\ stats = Empty
    /\ lastTx = NoTx
    /\ credited = [a \in Addrs |-> 0]
    /\ debited = [a \in Addrs |-> 0]
    /\ seenTo = {}
    /\ seenFrom = {}
    /\ lastSent = [a \in Addrs |-> 0]
    /\ calls = <<>>
    /\ lastCall = NoCall
    /\ FetchIdle
    /\ ListIdle /\ ServerIdle /\ PaymentIdle

\* one iteration of the loop, and what follows it when the loop is left: the failure of
\* lines 527-528, or token_info from the first record and the price (lines 531-558)
FetchPage ==
    /\ pc = "fetch"
    /\ \E resp \in PageResponses :
          LET fetched == all_transfers + resp.n
          IN  /\ resp.kind = "list" /\ resp.n = PageSize => page < MaxPages
              /\ responses' = Append(responses, resp)
              /\ IF FailsInLoop(resp, all_transfers)
                 THEN /\ pc' = "failed"
                      /\ UNCHANGED <<page, all_transfers, token_info>>
                 ELSE IF BreaksLoop(resp)
                 THEN /\ all_transfers' = fetched
                      /\ page' = page
                      /\ IF fetched = 0
                         THEN pc' = "failed" /\ UNCHANGED token_info
                         ELSE /\ pc' = "analyze"
                              /\ \E d \in 0..MaxDec, p \in 0..MaxPrice, m \in 1..MaxThr :
                                    token_info' =
                                        IF p > 0
                                        THEN [decimals |-> d, bnb_price_usd |-> p,
                                              use_bnb |-> TRUE, price_usd |-> 0,
                                              max_txs_per_buyer |-> m]
                                        ELSE [decimals |-> d, price_usd |-> 0,
                                              use_bnb |-> FALSE, max_txs_per_buyer |-> m]
                 ELSE /\ all_transfers' = fetched
                      /\ page' = page + 1
                      /\ UNCHANGED <<pc, token_info>>
    /\ UNCHANGED <<nTransfers, lastTs, start_seconds, end_seconds, api_key,
                   all_buyers, address_txs, early_buyers, early_order, valid_buyers,
                   tx_cache, cursor, buyers, stats, lastTx, credited, debited, seenTo,
                   seenFrom, lastSent, calls, lastCall, listVars, serverVars, paymentVars>>

NextFetch == FetchPage

SpecFetch == InitFetch /\ [][NextFetch]_vars

(***************************************************************************)
(* The server: api_analyze handler threads, lines 1203-1284, and the       *)
(* run_analysis jobs they submit to analysis_executor.  A request is named *)
(* by its number, which stands for its session id.  active_tasks_lock      *)
(* guards single statements only, so each of its sections is one step;     *)
(* queue_lock is held across calls and is a variable.                      *)
(***************************************************************************)
MaxRequests == 6     \* api_analyze requests
MaxInFlight == 2     \* handler threads that have not returned

\* line 96; also the executor's max_workers, line 99
MAX_CONCURRENT_ANALYSIS == 4

\* the queue length of line 1207
QueueLimit == 5

Requests == 1..MaxRequests

Without(seq, r) == SelectSeq(seq, LAMBDA x : x # r)

InitServer ==
    /\ pc = "serve"
    /\ nTransfers = 0
    /\ lastTs = T0
    /\ token_info = [decimals |-> 18]
    /\ start_seconds = 0
    /\ end_seconds = 0
    /\ api_key = Unread
    /\ all_buyers = Empty
    /\ address_txs = Empty
    /\ early_buyers = Empty
    /\ early_order = <<>>
    /\ valid_buyers = <<>>
    /\ tx_cache = Empty
    /\ cursor = <<1, 1>>
    /\ buyers = <<>>
    /\ stats = Empty
    /\ lastTx = NoTx
    /\ credited = [a \in Addrs |-> 0]
    /\ debited = [a \in Addrs |-> 0]
    /\ seenTo = {}
    /\ seenFrom = {}
    /\ lastSent = [a \in Addrs |-> 0]
    /\ calls = <<>>
    /\ lastCall = NoCall
    /\ active_tasks = <<>>
    /\ analysis_queue_data = <<>>
    /\ queue_lock = Free
    /\ handler = [r \in Requests |-> "idle"]
    /\ worker = [r \in Requests |-> "none"]
    /\ sessions = [r \in Requests |-> "none"]
    /\ ListIdle /\ FetchIdle /\ PaymentIdle

\* can_start_analysis, lines 180-183
CanStartAnalysis == Len(active_tasks) < MAX_CONCURRENT_ANALYSIS

InFlight == {q \in Requests : handler[q] \notin {"idle", "returned"}}

\* lines 1113-1204: the session is created, the inputs pass, the capacity is read.
\* Requests are numbered in the order in which they read it.
CanStart(r) ==
    /\ handler[r] = "idle"
    /\ r > 1 => handler[r - 1] # "idle"
    /\ Cardinality(InFlight) < MaxInFlight
    /\ sessions' = [sessions EXCEPT ![r] = "processing"]
    /\ handler' = [handler EXCEPT ![r] = IF CanStartAnalysis THEN "add_task"
                                        ELSE "lock_queue"]
    /\ UNCHANGED <<active_tasks, analysis_queue_data, queue_lock, worker>>
    /\ UNCHANGED <<analysisVars, listVars, fetchVars, paymentVars>>

\* line 1230, add_active_task (lines 144-152)
AddActiveTask(r) ==
    /\ handler[r] = "add_task"
    /\ active_tasks' = Append(active_tasks, r)
    /\ handler' = [handler EXCEPT ![r] = "submit"]
    /\ UNCHANGED <<analysis_queue_data, queue_lock, worker, sessions>>
    /\ UNCHANGED <<analysisVars, listVars, fetchVars, paymentVars>>

\* line 1260: run_analysis is handed to the executor
Submit(r) ==
    /\ handler[r] = "submit"
    /\ worker' = [worker EXCEPT ![r] = "pending"]
    /\ handler' = [handler EXCEPT ![r] = "respond"]
    /\ UNCHANGED <<active_tasks, analysis_queue_data, queue_lock, sessions>>
    /\ UNCHANGED <<analysisVars, listVars, fetchVars, paymentVars>>

\* an exception after the registration, before the job is submitted: the except of
\* line 1272 runs remove_active_task (line 1274)
HandlerFails(r) ==
    /\ handler[r] = "submit"
    /\ active_tasks' = Without(active_tasks, r)
    /\ handler' = [handler EXCEPT ![r] = "except"]
    /\ UNCHANGED <<analysis_queue_data, queue_lock, worker, sessions>>
    /\ UNCHANGED <<analysisVars, listVars, fetchVars, paymentVars>>

\* line 1206: the handler takes queue_lock, a threading.Lock, and tests the length
EnterQueueBlock(r) ==
    /\ handler[r] = "lock_queue"
    /\ queue_lock = Free
    /\ queue_lock' = {r}
    /\ handler' = [handler EXCEPT ![r] = IF Len(analysis_queue_data) >= QueueLimit
                                        THEN "status_full" ELSE "add_to_queue"]
    /\ UNCHANGED <<active_tasks, analysis_queue_data, worker, sessions>>
    /\ UNCHANGED <<analysisVars, listVars, fetchVars, paymentVars>>

\* the handler's calls that take queue_lock themselves, each waiting until it is free
\* whoever holds it: get_system_status (lines 121-131) at lines 1212, 1226 and 1269,
\* add_to_queue (lines 160-170) at line 1216, remove_from_queue (lines 172-178) at
\* line 1275; what follows each call up to the next one is part of the step
HandlerQueueCall(r) ==
    /\ handler[r] \in {"respond", "except", "status_full", "add_to_queue", "status_queued"}
    /\ queue_lock = Free
    /\ handler' = [handler EXCEPT ![r] = IF @ = "add_to_queue" THEN "status_queued"
                                        ELSE "returned"]
    /\ analysis_queue_data' =
          IF handler[r] = "add_to_queue" THEN Append(analysis_queue_data, r)
          ELSE IF handler[r] = "except" THEN Without(analysis_queue_data, r)
          ELSE analysis_queue_data
    /\ sessions' = IF handler[r] = "except" THEN [sessions EXCEPT ![r] = "error"]
                   ELSE sessions
    /\ queue_lock' = Free
    /\ UNCHANGED <<active_tasks, worker>>
    /\ UNCHANGED <<analysisVars, listVars, fetchVars, paymentVars>>

\* an executor thread is free and takes the job
StartJob(r) ==
    /\ worker[r] = "pending"
    /\ Cardinality({q \in Requests : worker[q] \in {"running", "unqueue"}})
          < MAX_CONCURRENT_ANALYSIS
    /\ worker' = [worker EXCEPT ![r] = "running"]
    /\ UNCHANGED <<active_tasks, analysis_queue_data, queue_lock, handler, sessions>>
    /\ UNCHANGED <<analysisVars, listVars, fetchVars, paymentVars>>

\* lines 1235-1255: analyze_token returns or raises, complete_session records it, and
\* the finally block runs remove_active_task
FinishJob(r) ==
    /\ worker[r] = "running"
    /\ \E status \in {"completed", "error"} :
          sessions' = [sessions EXCEPT ![r] = status]
    /\ active_tasks' = Without(active_tasks, r)
    /\ worker' = [worker EXCEPT ![r] = "unqueue"]
    /\ UNCHANGED <<analysis_queue_data, queue_lock, handler>>
    /\ UNCHANGED <<analysisVars, listVars, fetchVars, paymentVars>>

\* line 1257: remove_from_queue, which waits for queue_lock; the executor thread is
\* free again afterwards
JobUnqueue(r) ==
    /\ worker[r] = "unqueue"
    /\ queue_lock = Free
    /\ analysis_queue_data' = Without(analysis_queue_data, r)
    /\ worker' = [worker EXCEPT ![r] = "done"]
    /\ UNCHANGED <<active_tasks, queue_lock, handler, sessions>>
    /\ UNCHANGED <<analysisVars, listVars, fetchVars, paymentVars>>

NextServer ==
    \E r \in Requests :
        \/ CanStart(r)
        \/ AddActiveTask(r)
        \/ Submit(r)
        \/ HandlerFails(r)
        \/ EnterQueueBlock(r)
        \/ HandlerQueueCall(r)
        \/ StartJob(r)
        \/ FinishJob(r)
        \/ JobUnqueue(r)

\* the server from its start
SpecServer == InitServer /\ [][NextServer]_vars

\* the requests admitted first
Admitted == 1..MAX_CONCURRENT_ANALYSIS

\* The server at capacity: the first MAX_CONCURRENT_ANALYSIS requests were admitted
\* one after another, their handlers have returned and their analyses are running.
\* SpecServer reaches this state.
InitBusy ==
    /\ pc = "serve"
    /\ nTransfers = 0
    /\ lastTs = T0
    /\ token_info = [decimals |-> 18]
    /\ start_seconds = 0
    /\ end_seconds = 0
    /\ api_key = Unread
    /\ all_buyers = Empty
    /\ address_txs = Empty
    /\ early_buyers = Empty
    /\ early_order = <<>>
    /\ valid_buyers = <<>>
    /\ tx_cache = Empty
    /\ cursor = <<1, 1>>
    /\ buyers = <<>>
    /\ stats = Empty
    /\ lastTx = NoTx
    /\ credited = [a \in Addrs |-> 0]
    /\ debited = [a \in Addrs |-> 0]
    /\ seenTo = {}
    /\ seenFrom = {}
    /\ lastSent = [a \in Addrs |-> 0]
    /\ calls = <<>>
    /\ lastCall = NoCall
    /\ active_tasks = [i \in Admitted |-> i]
    /\ analysis_queue_data = <<>>
    /\ queue_lock = Free
    /\ handler = [r \in Requests |-> IF r \in Admitted THEN "returned" ELSE "idle"]
    /\ worker = [r \in Requests |-> IF r \in Admitted THEN "running" ELSE "none"]
    /\ sessions = [r \in Requests |-> IF r \in Admitted THEN "processing" ELSE "none"]
    /\ ListIdle /\ FetchIdle /\ PaymentIdle

SpecBusy == InitBusy /\ [][NextServer]_vars

\* every thread that can take its next step is scheduled, and an analysis ends;
\* requests need not arrive and handlers need not fail
FairServer ==
    \A r \in Requests :
        /\ WF_vars(AddActiveTask(r))
        /\ WF_vars(Submit(r))
        /\ WF_vars(EnterQueueBlock(r))
        /\ WF_vars(HandlerQueueCall(r))
        /\ WF_vars(StartJob(r))
        /\ WF_vars(FinishJob(r))
        /\ WF_vars(JobUnqueue(r))

SpecBusyFair == SpecBusy /\ FairServer

(***************************************************************************)
(* Payment: verify_payment, lines 978-1057, and the paid branch of         *)
(* api_analyze, lines 1125-1142.  Both keep their data in two JSON files   *)
(* that every request loads, changes in memory and writes back whole       *)
(* (lines 60-84); no lock is taken.  A token is named by the number of the *)
(* verify_payment request that created it.                                 *)
(***************************************************************************)
MaxVerifiers == 2    \* verify_payment requests
MaxPayers == 4       \* paid api_analyze requests

\* line 54
PAYMENT_TOKEN_USES == 3

Verifiers == 1..MaxVerifiers
Payers == 1..MaxPayers
PaymentHashes == {"0xp1", "0xp2"}

NoHash == ""

InitPayment ==
    /\ pc = "serve"
    /\ nTransfers = 0
    /\ lastTs = T0
    /\ token_info = [decimals |-> 18]
    /\ start_seconds = 0
    /\ end_seconds = 0
    /\ api_key = Unread
    /\ all_buyers = Empty
    /\ address_txs = Empty
    /\ early_buyers = Empty
    /\ early_order = <<>>
    /\ valid_buyers = <<>>
    /\ tx_cache = Empty
    /\ cursor = <<1, 1>>
    /\ buyers = <<>>
    /\ stats = Empty
    /\ lastTx = NoTx
    /\ credited = [a \in Addrs |-> 0]
    /\ debited = [a \in Addrs |-> 0]
    /\ seenTo = {}
    /\ seenFrom = {}
    /\ lastSent = [a \in Addrs |-> 0]
    /\ calls = <<>>
    /\ lastCall = NoCall
    /\ payment_tokens = Empty
    /\ used_tx_hashes = <<>>
    /\ verifier = [v \in Verifiers |->
                      [pc |-> "idle", tx_hash |-> NoHash, used_hashes |-> <<>>]]
    /\ payer = [p \in Payers |-> [pc |-> "idle", payment_token |-> 0, tokens |-> Empty]]
    /\ ListIdle /\ FetchIdle /\ ServerIdle

\* lines 992-995: the used hashes are loaded and the request's hash is looked up
LoadUsedHashes(v) ==
    /\ verifier[v].pc = "idle"
    /\ v > 1 => verifier[v - 1].pc # "idle"
    /\ \E h \in PaymentHashes :
          verifier' = [verifier EXCEPT ![v] =
              [pc |-> IF InSeq(used_tx_hashes, h) THEN "rejected" ELSE "on_chain",
               tx_hash |-> h, used_hashes |-> used_tx_hashes]]
    /\ UNCHANGED <<payment_tokens, used_tx_hashes, payer>>
    /\ UNCHANGED <<analysisVars, listVars, fetchVars, serverVars>>

\* lines 997-1022: the transaction is fetched from the chain and passes or fails
CheckOnChain(v) ==
    /\ verifier[v].pc = "on_chain"
    /\ \E valid \in BOOLEAN :
          verifier' = [verifier EXCEPT ![v].pc = IF valid THEN "issue" ELSE "rejected"]
    /\ UNCHANGED <<payment_tokens, used_tx_hashes, payer>>
    /\ UNCHANGED <<analysisVars, listVars, fetchVars, serverVars>>

\* lines 1025-1038: the token is created and the token file loaded and written back
\* with it
SaveToken(v) ==
    /\ verifier[v].pc = "issue"
    /\ payment_tokens' =
          Update(payment_tokens,
                 v :> [tx_hash |-> verifier[v].tx_hash, uses_left |-> PAYMENT_TOKEN_USES])
    /\ verifier' = [verifier EXCEPT ![v].pc = "mark_used"]
    /\ UNCHANGED <<used_tx_hashes, payer>>
    /\ UNCHANGED <<analysisVars, listVars, fetchVars, serverVars>>

\* lines 1041-1050: the list loaded at line 993 is written back with the hash added,
\* and the token is returned to the client
MarkUsed(v) ==
    /\ verifier[v].pc = "mark_used"
    /\ used_tx_hashes' = Append(verifier[v].used_hashes, verifier[v].tx_hash)
    /\ verifier' = [verifier EXCEPT ![v].pc = "issued"]
    /\ UNCHANGED <<payment_tokens, payer>>
    /\ UNCHANGED <<analysisVars, listVars, fetchVars, serverVars>>

\* the tokens clients hold
IssuedTokens == {v \in Verifiers : verifier[v].pc = "issued"}

\* lines 1125-1127: a paid request presents a token it was given; the file is loaded
LoadPaymentTokens(p) ==
    /\ payer[p].pc = "idle"
    /\ p > 1 => payer[p - 1].pc # "idle"
    /\ \E t \in IssuedTokens :
          payer' = [payer EXCEPT ![p] =
              [pc |-> "check", payment_token |-> t, tokens |-> payment_tokens]]
    /\ UNCHANGED <<payment_tokens, used_tx_hashes, verifier>>
    /\ UNCHANGED <<analysisVars, listVars, fetchVars, serverVars>>

\* lines 1129-1142 on the loaded copy: an unknown or used-up token is refused,
\* otherwise uses_left is lowered in the copy and the copy is written to the file
UseToken(p) ==
    LET t == payer[p].payment_token
        tokens == payer[p].tokens
    IN  /\ payer[p].pc = "check"
        /\ IF t \notin DOMAIN tokens
           THEN /\ payer' = [payer EXCEPT ![p].pc = "rejected"]
                /\ UNCHANGED payment_tokens
           ELSE IF tokens[t].uses_left <= 0
           THEN /\ payer' = [payer EXCEPT ![p].pc = "rejected"]
                /\ UNCHANGED payment_tokens
           ELSE /\ payment_tokens' = [tokens EXCEPT ![t].uses_left = @ - 1]
                /\ payer' = [payer EXCEPT ![p].pc = "accepted", ![p].tokens = payment_tokens']
        /\ UNCHANGED <<used_tx_hashes, verifier>>
        /\ UNCHANGED <<analysisVars, listVars, fetchVars, serverVars>>

NextPayment ==
    \/ \E v \in Verifiers : LoadUsedHashes(v)
    \/ \E v \in Verifiers : CheckOnChain(v)
    \/ \E v \in Verifiers : SaveToken(v)
    \/ \E v \in Verifiers : MarkUsed(v)
    \/ \E p \in Payers : LoadPaymentTokens(p)
    \/ \E p \in Payers : UseToken(p)

SpecPayment == InitPayment /\ [][NextPayment]_vars

(***************************************************************************)
(* The flat-price valuation in binary floating point, lines 787-791 and    *)
(* 867-882.  Python's float is a binary format whose operations each       *)
(* return the representable value nearest to the exact result, ties to the *)
(* even significand.  The significand has MantBits bits here (53 in the    *)
(* interpreter); the exponent range is not reached.  A cohort of one       *)
(* address; raw amounts are the integers the ledger holds.                 *)
(***************************************************************************)
MantBits == 4        \* bits of the significand
MaxFloatRaw == 9     \* raw token units bought, and sold, by the address
MaxHalves == 3       \* the flat price is a multiple of 1/2 up to MaxHalves/2

RECURSIVE Pow2(_)
Pow2(n) == IF n = 0 THEN 1 ELSE 2 * Pow2(n - 1)

RECURSIVE Exponent(_, _)
\* the e with 2^(MantBits-1) <= (a/d) / 2^e < 2^MantBits, for a, d > 0
Exponent(a, d) ==
    IF a >= Pow2(MantBits) * d THEN Exponent(a, 2 * d) + 1
    ELSE IF a < Pow2(MantBits - 1) * d THEN Exponent(2 * a, d) - 1
    ELSE 0

\* round to nearest, ties to even: the float nearest to the fraction x
Fl(x) ==
    IF x[1] = 0 THEN RZero
    ELSE LET a == Abs(x[1])
             e == Exponent(a, x[2])
             n == IF e < 0 THEN a * Pow2(-e) ELSE a
             d == IF e > 0 THEN x[2] * Pow2(e) ELSE x[2]
             m == n \div d
             r == n % d
             significand == IF 2 * r > d \/ (2 * r = d /\ m % 2 = 1) THEN m + 1 ELSE m
             signed == IF x[1] < 0 THEN -significand ELSE significand
         IN  IF e >= 0 THEN RInt(signed * Pow2(e)) ELSE RNorm(signed, Pow2(-e))

\* float +, -, *, / and int / int
FAdd(x, y) == Fl(RAdd(x, y))
FSub(x, y) == Fl(RSub(x, y))
FMul(x, y) == Fl(RMul(x, y))
FDiv(x, y) == Fl(RDiv(x, y))
IntTrueDiv(n, k) == Fl(RNorm(n, k))

\* lines 820-891 on floats, for an entry without native-flow data
FloatValuation(buy_amount, sell_amount, holding, price_usd) ==
    IF RPos(price_usd)
    THEN LET buy_value_usd == FMul(buy_amount, price_usd)
             sell_value_usd == FMul(sell_amount, price_usd)
             holding_value_usd == FMul(holding, price_usd)
         IN  [buy_value_usd |-> buy_value_usd,
              sell_value_usd |-> sell_value_usd,
              holding_value_usd |-> holding_value_usd,
              total_profit_usd |->
                  FSub(FAdd(sell_value_usd, holding_value_usd), buy_value_usd),
              profit_multiple |->
                  IF RPos(buy_value_usd)
                  THEN FDiv(FAdd(sell_value_usd, holding_value_usd), buy_value_usd)
                  ELSE RZero]
    ELSE [buy_value_usd |-> RZero, sell_value_usd |-> RZero,
          holding_value_usd |-> RZero, total_profit_usd |-> RZero,
          profit_multiple |-> RZero]

\* lines 787-805 and 893-914 on floats
FloatReport(addr, data, info) ==
    LET decimal == info.decimals
        price_usd == info.price_usd
        buy_amount == IntTrueDiv(data.buy_amount, Pow10(decimal))
        sell_amount == IntTrueDiv(data.sell_amount, Pow10(decimal))
        holding == FSub(buy_amount, sell_amount)
    IN  [address |-> addr,
         buy_amount |-> buy_amount,
         sell_amount |-> sell_amount,
         holding |-> holding,
         status |-> IF RPos(holding) THEN "holding" ELSE "cleared",
         bnb_spent |-> RZero, bnb_received |-> RZero, bnb_profit |-> RZero]
        @@ FloatValuation(buy_amount, sell_amount, holding, price_usd)

\* the flat prices token_info can carry
FlatPrices == {RNorm(n, 2) : n \in 0..MaxHalves}

InitFloat ==
    /\ pc = "report"
    /\ ExtIdle
    /\ nTransfers = 1
    /\ lastTs = MaxT
    /\ start_seconds = 0
    /\ end_seconds = MaxOff
    /\ api_key = ""
    /\ \E d \in 0..MaxDec, p \in FlatPrices, b \in 0..MaxFloatRaw, s \in 0..MaxFloatRaw :
          /\ token_info = [decimals |-> d, bnb_price_usd |-> 0, price_usd |-> p]
          /\ all_buyers = (ReportAddr :>
                              [first_buy_time |-> T0, buy_amount |-> b, sell_amount |-> s,
                               buy_count |-> 1, sell_count |-> IF s = 0 THEN 0 ELSE 1,
                               last_sell_time |-> IF s = 0 THEN 0 ELSE MaxT])
    /\ early_buyers = (ReportAddr :> NewEarlyBuyer(ReportAddr, T0))
    /\ address_txs = Empty
    /\ early_order = <<ReportAddr>>
    /\ valid_buyers = <<>>
    /\ tx_cache = Empty
    /\ cursor = <<1, 1>>
    /\ buyers = <<>>
    /\ stats = Empty
    /\ lastTx = NoTx
    /\ credited = [a \in Addrs |-> 0]
    /\ debited = [a \in Addrs |-> 0]
    /\ seenTo = {}
    /\ seenFrom = {}
    /\ lastSent = [a \in Addrs |-> 0]
    /\ calls = <<>>
    /\ lastCall = NoCall

\* lines 777-914, use_bnb_calculation off: the reports of the cohort
ReportFloat ==
    /\ pc = "report"
    /\ UNCHANGED extVars
    /\ early_buyers' = MergeLedger(early_buyers, all_buyers)
    /\ buyers' = <<FloatReport(ReportAddr, early_buyers'[ReportAddr], token_info)>>
    /\ pc' = "done"
    /\ UNCHANGED <<nTransfers, lastTs, start_seconds, end_seconds, api_key, all_buyers,
                   address_txs, early_order, valid_buyers, tx_cache, cursor, lastTx,
                   credited, debited, seenTo, seenFrom, lastSent, calls, lastCall,
                   token_info, stats>>

NextFloat == ReportFloat

SpecFloat == InitFloat /\ [][NextFloat]_vars

(***************************************************************************)
(* Properties.                                                             *)
(***************************************************************************)
Threshold == Get(token_info, "max_txs_per_buyer", DefaultMaxTxs)

ReportIndexes == 1..Len(buyers)

MoneyFields ==
    {"buy_value_usd", "sell_value_usd", "holding_value_usd", "total_profit_usd",
     "profit_multiple", "bnb_spent", "bnb_received", "bnb_profit"}

RECURSIVE SumTo(_, _)
\* f[1] + ... + f[n]
SumTo(f, n) == IF n = 0 THEN 0 ELSE f[n] + SumTo(f, n - 1)

\* the step replayed a transfer record
ReplayStep == nTransfers' = nTransfers + 1

\* C1: every cohort address is reported with a first-buy time inside the window
\* [creation_time + start_seconds, creation_time + end_seconds].
C1_FirstBuyInWindow ==
    pc = "done" =>
        \A i \in ReportIndexes :
            /\ start_cutoff_time <= ParseTime(buyers[i].first_buy_time)
            /\ ParseTime(buyers[i].first_buy_time) <= end_cutoff_time

\* C2: a report's buy_amount and sell_amount are the sums of rawValue / 10^decimals
\* over the transfers credited to and debited from the address (one scaling), and
\* stats.total_buy is the sum of those buy amounts.
C2_ScaledOnce ==
    pc = "done" =>
        /\ \A i \in ReportIndexes :
              /\ buyers[i].buy_amount =
                    ToAmount(credited[buyers[i].address], token_info.decimals)
              /\ buyers[i].sell_amount =
                    ToAmount(debited[buyers[i].address], token_info.decimals)
        /\ stats.total_buy =
              SumTo([i \in ReportIndexes |->
                        ToAmount(credited[buyers[i].address], token_info.decimals)],
                    Len(buyers))

\* C3: a cohort address is reported is_bot exactly when it has more transaction
\* records than max_txs_per_buyer, with or without an API key and a native price.
C3_BotPartition ==
    pc = "done" =>
        \A i \in ReportIndexes :
            buyers[i].is_bot <=> (TxCount(address_txs, buyers[i].address) > Threshold)

\* C4: a report whose address has more transaction records than the threshold has
\* every monetary field zero, whatever the native price and the flat token price.
C4_BotsAllZero ==
    pc = "done" =>
        \A i \in ReportIndexes :
            TxCount(address_txs, buyers[i].address) > Threshold =>
                \A f \in MoneyFields : buyers[i][f] = RZero

\* C5 as stated: the ledger has an entry for every address seen as sender or as
\* recipient of a transfer with no excluded endpoint.
C5_LedgerCoversSendersToo == (seenTo \cup seenFrom) \subseteq DOMAIN all_buyers

\* C5 as amended: the ledger has an entry for every address seen as recipient of a
\* transfer with no excluded endpoint, and for no other address: an address seen
\* only as a sender has none.
C5_LedgerCoversRecipients == DOMAIN all_buyers = seenTo

C5_Witness ==
    /\ nTransfers = MaxLen
    /\ seenTo # {}
    /\ \E a \in seenFrom : a \notin seenTo /\ a \notin DOMAIN all_buyers

ExcludedFree ==
    \A x \in EXCLUDE_ADDRESSES :
        /\ x \notin DOMAIN all_buyers
        /\ x \notin DOMAIN address_txs
        /\ x \notin DOMAIN early_buyers
        /\ ~InSeq(early_order, x)

\* C7: the zero address and the burn address never get a ledger entry, a transaction
\* record list or cohort membership, and a transfer naming one of them as sender or
\* recipient leaves the ledger, the transaction records and the cohort unchanged.
C7_ExcludedUntouched ==
    [][ /\ ExcludedFree'
        /\ (ReplayStep /\ (lastTx'.from \in EXCLUDE_ADDRESSES
                           \/ lastTx'.to \in EXCLUDE_ADDRESSES)) =>
              UNCHANGED <<all_buyers, address_txs, early_buyers, early_order>>
      ]_vars

C7_Witness ==
    /\ nTransfers = MaxLen
    /\ lastTx.kind # "none"
    /\ lastTx.to = DeadAddr
    /\ lastTx.from \in DOMAIN all_buyers
    /\ lastTx.from \in DOMAIN early_buyers

NoDuplicateCalls ==
    \A i \in 1..Len(calls) : \A j \in 1..Len(calls) : i # j => calls[i] # calls[j]

\* C8: in one run the lookup is made at most once for an (address, tx_hash) pair,
\* also when the hash occurs several times in the address's records, and a cached
\* pair is never overwritten.
C8_LookupOncePerPair ==
    [][ /\ NoDuplicateCalls'
        /\ \A a \in DOMAIN tx_cache :
              /\ a \in DOMAIN tx_cache'
              /\ \A h \in DOMAIN tx_cache[a] :
                    /\ h \in DOMAIN tx_cache'[a]
                    /\ tx_cache'[a][h] = tx_cache[a][h]
      ]_vars

C8_Witness ==
    /\ pc = "done"
    /\ \E a \in DOMAIN tx_cache :
          \E i \in 1..Len(address_txs[a]) : \E j \in 1..Len(address_txs[a]) :
              /\ i < j
              /\ address_txs[a][i][1] = address_txs[a][j][1]
              /\ address_txs[a][i][2] = "buy"
              /\ address_txs[a][j][2] = "sell"
              /\ InSeq(calls, <<a, address_txs[a][i][1]>>)

\* the sum, over the records of address a in direction dir, of field fld of a's own
\* cache entry for the record's hash
OwnFlow(cache, a, dir, fld) ==
    SumTo([i \in 1..Len(address_txs[a]) |->
              IF address_txs[a][i][2] = dir THEN cache[a][address_txs[a][i][1]][fld]
              ELSE 0],
          Len(address_txs[a]))

\* C9: buyers that share a transaction hash have separate cache entries,
\* tx_cache[a1][h] and tx_cache[a2][h], each resolved by a lookup made for its own
\* address; storing one leaves every other address's entries unchanged; and a buyer's
\* spent and received sums are those of its own entries.
C9_IndependentEntries ==
    [][ /\ Len(calls') = Len(calls) + 1 =>
              LET a == calls'[Len(calls')][1]
                  h == calls'[Len(calls')][2]
              IN  /\ a \in DOMAIN tx_cache' /\ h \in DOMAIN tx_cache'[a]
                  /\ \A b \in DOMAIN tx_cache :
                        b # a => b \in DOMAIN tx_cache' /\ tx_cache'[b] = tx_cache[b]
        /\ pc' \in {"report", "done"} =>
              \A k \in 1..Len(valid_buyers') :
                  LET a == valid_buyers'[k]
                  IN  /\ \A i \in 1..Len(address_txs'[a]) :
                            /\ InSeq(calls', <<a, address_txs'[a][i][1]>>)
                            /\ address_txs'[a][i][1] \in DOMAIN tx_cache'[a]
                      /\ early_buyers'[a].bnb_spent = OwnFlow(tx_cache, a, "buy", "bnb_out")
                      /\ early_buyers'[a].bnb_received =
                            OwnFlow(tx_cache, a, "sell", "bnb_in")
      ]_vars

C9_Witness ==
    /\ pc = "done"
    /\ \E a \in DOMAIN tx_cache : \E b \in DOMAIN tx_cache :
          /\ a # b
          /\ \E h \in DOMAIN tx_cache[a] \cap DOMAIN tx_cache[b] :
                /\ tx_cache[a][h] # tx_cache[b][h]
                /\ early_buyers[a].bnb_received = tx_cache[a][h].bnb_in
                /\ early_buyers[b].bnb_spent = tx_cache[b][h].bnb_out
                /\ tx_cache[a][h].bnb_in # tx_cache[b][h].bnb_in

\* a lookup failed: the call failed, the result is no object, or the response is
\* malformed
MainFailed(main) == main.kind \in {"error", "string"} \/ MainRaises(main)
InternalFailed(internal) == internal.kind \in {"error", "string"} \/ InternalRaises(internal)

\* C10: if one of the two lookups of _get_bnb_amount_from_tx fails, the result is
\* bnb_in = 0 and bnb_out = 0 (and the call returns: nothing is raised).
C10_FailureYieldsZero ==
    lastCall.kind = "returned" =>
        ((MainFailed(lastCall.main) \/ InternalFailed(lastCall.internal)) =>
            lastCall.result.bnb_in = 0 /\ lastCall.result.bnb_out = 0)

\* the addresses the buyers list reports, one element per report
ReportedAddresses == {buyers[i].address : i \in ReportIndexes}

\* C11: the buyers list has exactly one report for every cohort address, bots and
\* addresses whose lookups failed included, and no lookup is made for an address that
\* has more transaction records than the threshold.
C11_OneReportEachNoBotLookup ==
    /\ pc = "done" =>
          /\ ReportedAddresses = DOMAIN early_buyers
          /\ Len(buyers) = Cardinality(DOMAIN early_buyers)
          /\ \A i \in 1..Len(early_order) : early_order[i] \in ReportedAddresses
    /\ \A k \in 1..Len(calls) : ~IsBot(address_txs, calls[k][1], Threshold)

C11_Witness ==
    /\ pc = "done"
    /\ \E i \in ReportIndexes : \E j \in ReportIndexes :
          /\ IsBot(address_txs, buyers[i].address, Threshold)
          /\ buyers[i].is_bot
          /\ ~InSeq(calls, <<buyers[i].address, address_txs[buyers[i].address][1][1]>>)
          /\ buyers[j].address # buyers[i].address
          /\ \E h \in DOMAIN Get(tx_cache, buyers[j].address, Empty) :
                /\ InSeq(calls, <<buyers[j].address, h>>)
                /\ tx_cache[buyers[j].address][h] = ZeroFlow

\* the inputs of a report's valuation: the cohort entry's native flows and the prices
NativeSpent(i) == Get(early_buyers[buyers[i].address], "bnb_spent", 0)
NativeReceived(i) == Get(early_buyers[buyers[i].address], "bnb_received", 0)
NativeUsdPrice == Get(token_info, "bnb_price_usd", 0)
FlatPrice == Get(token_info, "price_usd", 0)

\* the report's monetary fields
MoneyOf(i) == [f \in MoneyFields |-> buyers[i][f]]

NativeMode(i) == (NativeSpent(i) > 0 \/ NativeReceived(i) > 0) /\ NativeUsdPrice > 0
FlatMode(i) == ~NativeMode(i) /\ FlatPrice > 0
NoPriceMode(i) == ~NativeMode(i) /\ ~FlatMode(i)

\* C12: a report is valued in native-flow mode iff (spent > 0 or received > 0) and the
\* native price > 0; otherwise in flat-price mode iff the flat price > 0; otherwise in
\* no-price mode, where every monetary field is 0.
C12_ValuationModes ==
    pc = "done" =>
        \A i \in ReportIndexes :
            /\ NativeMode(i) =>
                  MoneyOf(i) = NativeFlowValuation(buyers[i].buy_amount, buyers[i].sell_amount,
                                                   buyers[i].holding, NativeSpent(i),
                                                   NativeReceived(i), NativeUsdPrice)
            /\ FlatMode(i) =>
                  MoneyOf(i) = FlatPriceValuation(buyers[i].buy_amount, buyers[i].sell_amount,
                                                  buyers[i].holding, FlatPrice)
            /\ NoPriceMode(i) => \A f \in MoneyFields : buyers[i][f] = RZero

C12_Witness ==
    /\ pc = "done"
    /\ FlatPrice > 0
    /\ \E i \in ReportIndexes : \E j \in ReportIndexes :
          /\ NativeMode(i)
          /\ buyers[i].bnb_spent # RZero
          /\ buyers[i].buy_amount > 0
          /\ FlatMode(j)
          /\ buyers[j].buy_value_usd # RZero

\* the value of the remaining holding in native currency, by the rule "the average
\* sell price if anything was sold, else the average buy price if anything was bought,
\* else 0"
HoldingValueBySales(i) ==
    IF buyers[i].sell_amount > 0
    THEN RMul(TokR(buyers[i].holding),
              RDiv(RInt(NativeReceived(i)), TokR(buyers[i].sell_amount)))
    ELSE IF buyers[i].buy_amount > 0
    THEN RMul(TokR(buyers[i].holding),
              RDiv(RInt(NativeSpent(i)), TokR(buyers[i].buy_amount)))
    ELSE RZero

\* C13: in native-flow mode the holding is valued at holding * (received / sell_amount)
\* whenever sell_amount > 0, otherwise at holding * (spent / buy_amount) when
\* buy_amount > 0, otherwise at 0; with sell_amount > 0 and nothing received it is the
\* average sell price that is used.
C13_HoldingAtSellPriceIfSold ==
    pc = "done" =>
        \A i \in ReportIndexes :
            NativeMode(i) =>
                buyers[i].holding_value_usd =
                    RMul(HoldingValueBySales(i), RInt(NativeUsdPrice))

\* the native value of the holding the report carries (its USD value over the price)
HoldingValueNative(i) == RDiv(buyers[i].holding_value_usd, RInt(NativeUsdPrice))

TotalValue(i) == RAdd(RInt(NativeReceived(i)), HoldingValueNative(i))

\* spends 1.0 buying and sells half of the tokens for 0.8, in units of 0.2
SpendsOneSellsHalf(i) ==
    /\ NativeSpent(i) = 5
    /\ NativeReceived(i) = 4
    /\ buyers[i].sell_amount > 0
    /\ buyers[i].buy_amount = 2 * buyers[i].sell_amount

\* C14: in native-flow mode, with totalValue = received + holdingValueNative, the
\* profit multiple is totalValue / spent when spent > 0, 999.99 when spent = 0 and
\* received > 0, and 0 otherwise; total_profit_usd = (totalValue - spent) * native
\* price; and spending 1.0 then selling half for 0.8 gives holdingValueNative = 0.8,
\* totalValue = 1.6 and a multiple of 1.6.
C14_TotalValueAndMultiple ==
    pc = "done" =>
        \A i \in ReportIndexes :
            NativeMode(i) =>
                /\ buyers[i].profit_multiple =
                      (IF NativeSpent(i) > 0
                       THEN RDiv(TotalValue(i), RInt(NativeSpent(i)))
                       ELSE IF NativeReceived(i) > 0 THEN RNorm(99999, 100)
                       ELSE RZero)
                /\ buyers[i].total_profit_usd =
                      RMul(RSub(TotalValue(i), RInt(NativeSpent(i))), RInt(NativeUsdPrice))
                /\ SpendsOneSellsHalf(i) =>
                      /\ HoldingValueNative(i) = RInt(4)
                      /\ TotalValue(i) = RInt(8)
                      /\ buyers[i].profit_multiple = RNorm(16, 10)

C14_Witness ==
    /\ pc = "done"
    /\ \E i \in ReportIndexes :
          /\ NativeMode(i)
          /\ SpendsOneSellsHalf(i)
          /\ buyers[i].profit_multiple = RNorm(8, 5)

\* the sum of the values of the internal transfers whose field `side` names the address
InternalSum(internal, side, address) ==
    SumTo([k \in 1..Len(internal.result) |->
              IF Lower(internal.result[k][side]) = address
              THEN internal.result[k].value.n ELSE 0],
          Len(internal.result))

\* C15: for a lookup both of whose requests succeed, bnb_out is the transaction's value
\* if the address is its originator (and value > 0) plus the internal transfers the
\* address sent, and bnb_in is the transaction's value if the address is its recipient
\* (and value > 0) plus the internal transfers it received; the two rules apply
\* independently, also when the address is originator and recipient at once.
C15_DirectPlusInternal ==
    (/\ lastCall.kind = "returned"
     /\ ~MainFailed(lastCall.main)
     /\ ~InternalFailed(lastCall.internal)) =>
        LET address == Lower(lastCall.address)
            main == lastCall.main
            value == main.value.n
        IN  /\ lastCall.result.bnb_out =
                  (IF Lower(main.from) = address /\ value > 0 THEN value ELSE 0)
                  + InternalSum(lastCall.internal, "from", address)
            /\ lastCall.result.bnb_in =
                  (IF Lower(main.to) = address /\ value > 0 THEN value ELSE 0)
                  + InternalSum(lastCall.internal, "to", address)

\* C16: in every report holding = buy_amount - sell_amount, and the status is
\* 'still holding' exactly when holding > 0, 'cleared' otherwise.
C16_HoldingAndStatus ==
    pc = "done" =>
        \A i \in ReportIndexes :
            /\ buyers[i].holding = buyers[i].buy_amount - buyers[i].sell_amount
            /\ buyers[i].status = Holding <=> buyers[i].holding > 0
            /\ buyers[i].status = Cleared <=> buyers[i].holding <= 0

C16_Witness ==
    /\ pc = "done"
    /\ \E i \in ReportIndexes :
          /\ buyers[i].buy_amount > 0
          /\ buyers[i].sell_amount = buyers[i].buy_amount
          /\ buyers[i].holding = 0
          /\ buyers[i].status = Cleared

\* the values int(time.time()) may have when the reports are built
ClockValues == (MaxT + 1)..(MaxT + 1 + MaxLag)

\* C17: a report's holding_duration_seconds is now - first buy time when holding > 0,
\* and, when holding <= 0, the timestamp of the last processed transfer the address
\* sent minus its first buy time.
C17_HoldingDuration ==
    pc = "done" =>
        \E now \in ClockValues :
            \A i \in ReportIndexes :
                LET firstBuyTime == ParseTime(buyers[i].first_buy_time)
                    lastSellTime == lastSent[buyers[i].address]
                IN  /\ buyers[i].holding > 0 =>
                          buyers[i].holding_duration_seconds = now - firstBuyTime
                    /\ (buyers[i].holding <= 0 /\ buyers[i].address \in seenFrom) =>
                          buyers[i].holding_duration_seconds = lastSellTime - firstBuyTime

\* C18: in a successful result cleared_buyers + holding_buyers = total_buyers = the
\* number of reports, cleared_buyers is the number of reports with holding <= 0, and
\* holding_buyers is the number of reports whose status is 'still holding'.
C18_StatsCounts ==
    pc = "done" =>
        /\ stats.total_buyers = Len(buyers)
        /\ stats.cleared_buyers + stats.holding_buyers = stats.total_buyers
        /\ stats.cleared_buyers =
              Cardinality({i \in ReportIndexes : buyers[i].holding <= 0})
        /\ stats.holding_buyers =
              Cardinality({i \in ReportIndexes : buyers[i].status = Holding})

C18_Witness ==
    /\ pc = "done"
    /\ Len(buyers) = 2
    /\ stats.cleared_buyers = 1
    /\ stats.holding_buyers = 1
    /\ \E i \in ReportIndexes : buyers[i].holding = 0 /\ buyers[i].sell_amount > 0

C20_CohortIffInWindow ==
    \A a \in DOMAIN all_buyers :
        all_buyers[a].buy_count = 1 =>
            LET t == all_buyers[a].first_buy_time
            IN  a \in DOMAIN early_buyers <=>
                    (creation_time + start_seconds <= t /\ t <= creation_time + end_seconds)

C20_Witness ==
    /\ pc = "replay"
    /\ \E a \in DOMAIN all_buyers : \E b \in DOMAIN all_buyers :
          /\ all_buyers[a].buy_count = 1
          /\ all_buyers[a].first_buy_time = creation_time + end_seconds
          /\ a \in DOMAIN early_buyers
          /\ all_buyers[b].buy_count = 1
          /\ all_buyers[b].first_buy_time = creation_time + end_seconds + 1
          /\ b \notin DOMAIN early_buyers

BuyCountOf(ledger, a) == IF a \in DOMAIN ledger THEN ledger[a].buy_count ELSE 0
SellCountOf(ledger, a) == IF a \in DOMAIN ledger THEN ledger[a].sell_count ELSE 0

\* C24: no transfer gives the same address a buy credit and a sell debit: in every
\* replay step the address whose buy_count grows differs from any address whose
\* sell_count grows, also when the transfer's sender is its recipient.
C24_NoBuyAndSellInOneTransfer ==
    [][ ReplayStep =>
          \A a \in Addrs :
              ~(/\ BuyCountOf(all_buyers', a) > BuyCountOf(all_buyers, a)
                /\ SellCountOf(all_buyers', a) > SellCountOf(all_buyers, a))
      ]_vars

\* C21: a second replay of the same list object with the same window gives what the
\* first gave: the same outcome and, when it returns, the same ledger, the same
\* per-address records and the same cohort, although the first call converted the
\* list's string fields in place.
C21_SecondRunSame ==
    (run = 2 /\ pc \in {"replayed", "raised", "failed"}) => ReplayResult = first_result

\* the second call has returned, on a list the first call converted from strings, with
\* a sale, a record list and a cohort member in the result
C21_Witness ==
    /\ run = 2
    /\ pc = "replayed"
    /\ first_result.outcome = "replayed"
    /\ Len(transfers) = MaxLen
    /\ \A i \in 1..Len(transfers) : transfers[i].value.fmt = "int"
    /\ \E a \in DOMAIN all_buyers : all_buyers[a].sell_count > 0
    /\ \E a \in DOMAIN address_txs : Len(address_txs[a]) = 2
    /\ early_buyers # Empty

Malformed(rec) == CoerceRaises(rec) \/ rec.timeStamp.fmt = Missing \/ IndexRaises(rec)

\* C23: a malformed record never aborts the replay: a call on a list that holds one
\* does not end in an exception, and once it has returned every well-formed record of
\* the list has been replayed and no other.
C23_MalformedSkipped ==
    (\E i \in 1..Len(transfers) : Malformed(transfers[i])) =>
        /\ pc # "raised"
        /\ pc = "replayed" =>
              nTransfers = Cardinality({i \in 1..Len(transfers) : ~Malformed(transfers[i])})

\* C22: analyze_token fails only when it obtained no transfer record: once a page of
\* records has been fetched, no later response makes the run return a failure.
C22_FailsOnlyWithoutData == pc = "failed" => all_transfers = 0

Active(r) == \E i \in 1..Len(active_tasks) : active_tasks[i] = r

\* C25: active_tasks never holds more than MAX_CONCURRENT_ANALYSIS entries, whatever
\* the interleaving of capacity checks, registrations and finishing analyses.
C25_ActiveWithinLimit == Len(active_tasks) <= MAX_CONCURRENT_ANALYSIS

AtCapacity(r) == handler[r] \in {"lock_queue", "status_full", "add_to_queue", "status_queued"}

\* C26: a request that found the server at capacity gets its response, and queue_lock,
\* once taken, is released again.
C26_AtCapacityReturns ==
    /\ \A r \in Requests : AtCapacity(r) ~> handler[r] = "returned"
    /\ (queue_lock # Free) ~> (queue_lock = Free)

Queued(r) ==
    \/ handler[r] \in {"add_to_queue", "status_queued"}
    \/ \E i \in 1..Len(analysis_queue_data) : analysis_queue_data[i] = r

\* C27: a session the handler queues is started later on and its session ends as
\* 'completed' or 'error'.
C27_QueuedIsServed ==
    \A r \in Requests : Queued(r) ~> sessions[r] \in {"completed", "error"}

\* C28: every entry of active_tasks is removed again.
C28_ActiveIsRemoved == \A r \in Requests : Active(r) ~> ~Active(r)

AcceptedWith(t) == {p \in Payers : payer[p].pc = "accepted" /\ payer[p].payment_token = t}

\* C29: a token authorises at most PAYMENT_TOKEN_USES analyses under any interleaving
\* of the paid requests that present it, and its stored uses_left is never negative.
C29_TokenUsesBounded ==
    \A t \in Verifiers :
        /\ Cardinality(AcceptedWith(t)) <= PAYMENT_TOKEN_USES
        /\ t \in DOMAIN payment_tokens => payment_tokens[t].uses_left >= 0

TokensFor(h) == {v \in Verifiers : verifier[v].pc = "issued" /\ verifier[v].tx_hash = h}

\* C30: a payment transaction hash yields at most one token, whatever the interleaving
\* of the verify_payment requests that present it.
C30_OneTokenPerHash == \A h \in PaymentHashes : Cardinality(TokensFor(h)) <= 1

\* C33: holding_duration_seconds is never negative in a report, also for an address
\* whose holding is not positive and that sent no transfer.
C33_DurationNonNegative ==
    pc = "done" => \A i \in ReportIndexes : buyers[i].holding_duration_seconds >= 0

\* the records of address a with direction dir
RecordsOf(a, dir) == {i \in 1..Len(address_txs[a]) : address_txs[a][i][2] = dir}

RECURSIVE SumOver(_, _)
\* the sum of f over the index set S
SumOver(f, S) ==
    IF S = {} THEN 0
    ELSE LET i == CHOOSE j \in S : TRUE IN f[i] + SumOver(f, S \ {i})

\* the cached flow of address a for its record i
CachedFlow(a, i) == Get(tx_cache[a], address_txs[a][i][1], ZeroFlow)

\* C32: for every valid buyer, bnb_spent is the sum of the cached bnb_out over its
\* 'buy' records only and bnb_received the sum of the cached bnb_in over its 'sell'
\* records only, a hash recorded in both directions counting once in each sum, and
\* bnb_profit = bnb_received - bnb_spent.
C32_FlowSums ==
    pc \in {"report", "done"} =>
        \A k \in 1..Len(valid_buyers) :
            LET a == valid_buyers[k]
                out == [i \in 1..Len(address_txs[a]) |-> CachedFlow(a, i).bnb_out]
                in == [i \in 1..Len(address_txs[a]) |-> CachedFlow(a, i).bnb_in]
            IN  /\ early_buyers[a].is_bot = FALSE
                /\ early_buyers[a].bnb_spent = SumOver(out, RecordsOf(a, "buy"))
                /\ early_buyers[a].bnb_received = SumOver(in, RecordsOf(a, "sell"))
                /\ early_buyers[a].bnb_profit =
                      early_buyers[a].bnb_received - early_buyers[a].bnb_spent

\* a valid buyer with a hash recorded both as a buy and as a sell whose cached entry
\* has native flow in both directions, and a buy record with native inflow
C32_Witness ==
    /\ pc = "done"
    /\ \E k \in 1..Len(valid_buyers) :
          LET a == valid_buyers[k]
          IN  \E i \in RecordsOf(a, "buy") : \E j \in RecordsOf(a, "sell") :
                 /\ address_txs[a][i][1] = address_txs[a][j][1]
                 /\ CachedFlow(a, i).bnb_out > 0
                 /\ CachedFlow(a, i).bnb_in > 0
                 /\ early_buyers[a].bnb_spent = CachedFlow(a, i).bnb_out
                 /\ early_buyers[a].bnb_received = CachedFlow(a, j).bnb_in

\* C31: in flat-price mode a report with buyAmount > 0 has total_profit_usd = 0 and
\* profit_multiple = 1, whatever was sold and also when holding is negative, and a
\* report with buyAmount = 0 has profit_multiple = 0.
C31_FlatPriceCollapses ==
    pc = "done" /\ RPos(token_info.price_usd) =>
        \A i \in ReportIndexes :
            /\ RPos(buyers[i].buy_amount) =>
                  /\ buyers[i].total_profit_usd = RZero
                  /\ buyers[i].profit_multiple = RInt(1)
            /\ buyers[i].buy_amount = RZero => buyers[i].profit_multiple = RZero
====
